---------------------------- MODULE Spec2Model ----------------------------
(***************************************************************************)
(* A model of the tech-weekly aggregator, scripts/fetch_weekly.py:         *)
(* the normalizer, dedup, the seen-store (SQLite table "fetched"), the     *)
(* per-source fetch loop run(), the renderer build_markdown, the segment   *)
(* updater update_markdown_segment and main()/one_round.                   *)
(*                                                                         *)
(* Text is modelled by TLA+ strings, which are sequences of characters:    *)
(* Len, SubSeq, Tail and \o act on them as Python's len, slicing and +.    *)
(***************************************************************************)
EXTENDS Integers, Sequences, FiniteSets, TLC

VARIABLES
    fetched,    \* the SQLite table "fetched": normalized url -> row
    pc,         \* where main() is: "exit" when no process runs
    args,       \* the parsed command line of the running invocation
    conn,       \* the connection get_db() returned: "open" or "closed"
    src,        \* run(): the position of its for loop in SOURCES
    resp,       \* run(): what the world answered for the source just handled
    stats,      \* run(): the Stats object
    raw_htmls,  \* run(): url -> fetched page
    all_items,  \* run(): the items accumulated so far
    items,      \* one_round: items_raw, then the enriched items
    md,         \* the lines of the weekly document this invocation wrote
    alerts,     \* the payloads send_alert has posted to the webhook, in order
    fw,         \* a call of fetch_with_retries: its arguments, i, last_err, outcome
    seg_lines,  \* the lines of the document a segment update addresses
    calls,      \* the calls a test driver has made so far (op, arguments)
    rets        \* what each of those calls returned

storeVars == <<fetched>>
mainVars == <<pc, args, conn, src, resp, stats, raw_htmls, all_items, items, md, alerts,
              fw>>
segVars == <<seg_lines>>
driverVars == <<calls, rets>>
vars == <<fetched, pc, args, conn, src, resp, stats, raw_htmls, all_items, items, md,
          alerts, fw, seg_lines, calls, rets>>

----------------------------------------------------------------------------
(* Bounds of the model.                                                    *)

\* longest item list a driver hands to dedup
MaxLen == 3
\* number of seen-store calls a driver makes
MaxCalls == 3
\* most lines of a document a driver hands to update_markdown_segment
MaxDocLines == 3
\* longest item list a driver hands to update_markdown_segment
MaxSegItems == 2
\* bullets build_markdown keeps per section: grouped.get(sec, [])[:20] in the
\* source, scaled down with the page sizes of the model
SectionCap == 2
\* --max-per-source (20 by default), scaled down likewise
MaxPerSource == 2
\* largest --retries a driver passes to fetch_with_retries
MaxRetries == 3
\* cycles of the daemon loop that are followed
MaxCycles == 2

----------------------------------------------------------------------------
(* Text helpers.                                                           *)

Min(a, b) == IF a <= b THEN a ELSE b
Max(a, b) == IF a >= b THEN a ELSE b

\* the characters Python's \s and str.strip() treat as whitespace (those in use)
Whitespace == {" ", "\t", "\n"}

CharAt(s, i) == SubSeq(s, i, i)

IsSpace(c) == c \in Whitespace

RECURSIVE SkipSpaces(_)
\* s without its leading whitespace run
SkipSpaces(s) ==
    IF s = "" THEN ""
    ELSE IF IsSpace(CharAt(s, 1)) THEN SkipSpaces(Tail(s)) ELSE s

RECURSIVE CollapseSpaces(_)
\* re.sub(r"\s+", " ", s): every whitespace run becomes one space
CollapseSpaces(s) ==
    IF s = "" THEN ""
    ELSE IF IsSpace(CharAt(s, 1))
         THEN " " \o CollapseSpaces(SkipSpaces(s))
         ELSE CharAt(s, 1) \o CollapseSpaces(Tail(s))

RECURSIVE RStrip(_)
RStrip(s) ==
    IF s = "" THEN ""
    ELSE IF IsSpace(CharAt(s, Len(s))) THEN RStrip(SubSeq(s, 1, Len(s) - 1)) ELSE s

\* str.strip()
Strip(s) == RStrip(SkipSpaces(s))

\* a normalizer that collapses the runs but does not strip the ends
NormSpaceUnstripped(s) == CollapseSpaces(s)

\* norm_space(s) = re.sub(r"\s+", " ", s or "").strip()
norm_space(s) == Strip(CollapseSpaces(s))

\* hashlib.sha1(...).hexdigest(): modelled as an injective tagging of its input
\* (no collisions among the texts of the model)
sha1(s) == <<"sha1", s>>

----------------------------------------------------------------------------
(* dedup                                                                   *)

\* the content key dedup computes for an item
DedupKey(it) == sha1(norm_space(it.url))

RECURSIVE DedupLoop(_, _, _, _)
\* the for loop of dedup from index i on, with the set seen and the list out
DedupLoop(its, i, seen, out) ==
    IF i > Len(its) THEN out
    ELSE LET key == DedupKey(its[i])
         IN  IF key \in seen
             THEN DedupLoop(its, i + 1, seen, out)
             ELSE DedupLoop(its, i + 1, seen \cup {key}, Append(out, its[i]))

\* a dedup that compares raw urls (no norm_space before hashing)
DedupRawUrl(its) ==
    LET RECURSIVE Loop(_, _, _)
        Loop(i, seen, out) ==
            IF i > Len(its) THEN out
            ELSE IF sha1(its[i].url) \in seen
                 THEN Loop(i + 1, seen, out)
                 ELSE Loop(i + 1, seen \cup {sha1(its[i].url)}, Append(out, its[i]))
    IN  Loop(1, {}, <<>>)

\* a dedup whose loop starts one item late
DedupSkipFirst(its) == DedupLoop(its, 2, {}, <<>>)

dedup(its) == DedupLoop(its, 1, {}, <<>>)

----------------------------------------------------------------------------
(* The seen-store.                                                         *)

\* a has_seen that looks the raw url up
HasSeenRaw(db, url) == url \in DOMAIN db

\* SELECT 1 FROM fetched WHERE url = norm_space(url)
has_seen(db, url) == norm_space(url) \in DOMAIN db

\* db with the row of key k set to r (INSERT of a new primary key, or UPDATE)
Upsert(db, k, r) ==
    [u \in (DOMAIN db) \cup {k} |-> IF u = k THEN r ELSE db[u]]

NewRow(it, seen_time) ==
    [title |-> norm_space(it.title), source |-> norm_space(it.source),
     first_seen |-> seen_time, times_seen |-> 1]

\* a mark_seen whose conflict clause also takes the new title
MarkSeenRetitle(db, it, seen_time) ==
    LET k == norm_space(it.url)
    IN  IF k \in DOMAIN db
        THEN Upsert(db, k, [db[k] EXCEPT !.times_seen = @ + 1,
                                         !.title = norm_space(it.title)])
        ELSE Upsert(db, k, NewRow(it, seen_time))

\* INSERT ... VALUES (?, ?, ?, ?, 1) ON CONFLICT(url) DO UPDATE SET times_seen = times_seen + 1
mark_seen(db, it, seen_time) ==
    LET k == norm_space(it.url)
    IN  IF k \in DOMAIN db
        THEN Upsert(db, k, [db[k] EXCEPT !.times_seen = @ + 1])
        ELSE Upsert(db, k, NewRow(it, seen_time))

\* a mark_seen_overwrite that replaces the table's content by the one row
MarkSeenOverwriteFreshTable(db, it, seen_time) ==
    [u \in {norm_space(it.url)} |-> NewRow(it, seen_time)]

\* a mark_seen_overwrite whose conflict clause forgets to reset the counter
MarkSeenOverwriteKeepCount(db, it, seen_time) ==
    LET k == norm_space(it.url)
    IN  IF k \in DOMAIN db
        THEN Upsert(db, k, [NewRow(it, seen_time) EXCEPT !.times_seen = db[k].times_seen])
        ELSE Upsert(db, k, NewRow(it, seen_time))

\* INSERT ... ON CONFLICT(url) DO UPDATE SET title, source, first_seen = excluded.*, times_seen = 1
mark_seen_overwrite(db, it, seen_time) ==
    Upsert(db, norm_space(it.url), NewRow(it, seen_time))

----------------------------------------------------------------------------
(* Inputs of the drivers.                                                  *)

Item(t, u, s, d) == [title |-> t, url |-> u, source |-> s, summary |-> d]

\* items a driver passes: urls that differ only in whitespace, a second url,
\* an empty url; titles and sources that differ for the same url
DriverItems ==
    { Item("t", "a", "s", ""),
      Item(" u  v ", "a ", "r\t", "x"),
      Item("t", " a", "s", ""),
      Item("t", "b", "s", ""),
      Item("u", "", "r", "") }

DriverDates == {"2024-01-01", "2024-01-08"}

RECURSIVE SeqsUpTo(_, _)
\* the sequences over S of length at most n
SeqsUpTo(S, n) ==
    IF n = 0 THEN {<<>>}
    ELSE LET shorter == SeqsUpTo(S, n - 1)
         IN  shorter \cup {Append(q, x) : q \in {p \in shorter : Len(p) = n - 1}, x \in S}

----------------------------------------------------------------------------
(* URLs.                                                                   *)

StartsWith(s, k) == Len(k) <= Len(s) /\ SubSeq(s, 1, Len(k)) = k

\* the least index i >= from with s[i] in the set stops, or Len(s) + 1
RECURSIVE FindStop(_, _, _)
FindStop(s, from, stops) ==
    IF from > Len(s) THEN Len(s) + 1
    ELSE IF CharAt(s, from) \in stops THEN from
    ELSE FindStop(s, from + 1, stops)

\* the least i with s[i..] starting with "://", or 0
RECURSIVE FindSchemeSep(_, _)
FindSchemeSep(s, i) ==
    IF i + 2 > Len(s) THEN 0
    ELSE IF SubSeq(s, i, i + 2) = "://" THEN i
    ELSE FindSchemeSep(s, i + 1)

\* urlparse(u).scheme, for u of the shape scheme://netloc/path (else "")
UrlScheme(u) ==
    LET i == FindSchemeSep(u, 1) IN IF i = 0 THEN "" ELSE SubSeq(u, 1, i - 1)

\* urlparse(u).netloc: what follows "://" up to the next "/", "?" or "#"
UrlNetloc(u) ==
    LET i == FindSchemeSep(u, 1)
    IN  IF i = 0 THEN ""
        ELSE SubSeq(u, i + 3, FindStop(u, i + 3, {"/", "?", "#"}) - 1)

\* f"{urlparse(url).scheme}://{urlparse(url).netloc}"
UrlOrigin(u) == UrlScheme(u) \o "://" \o UrlNetloc(u)

\* urljoin(base, href) for a base without a path and a relative href
urljoin(base, href) ==
    IF StartsWith(href, "/") THEN UrlOrigin(base) \o href
    ELSE UrlOrigin(base) \o "/" \o href

----------------------------------------------------------------------------
(* Extractors.  A page is what the fetch returned: its length class and    *)
(* the anchors an extractor finds in it, [text, href, desc]; parsing the   *)
(* page "unparseable" raises.                                              *)

RECURSIVE TrendingLoop(_, _, _)
TrendingLoop(arts, i, its) ==
    IF i > Len(arts) THEN its
    ELSE LET a == arts[i]
             repo == norm_space(a.text)
             href == IF a.href # "" /\ ~StartsWith(a.href, "http")
                     THEN urljoin("https://github.com", a.href) ELSE a.href
         IN  TrendingLoop(arts, i + 1,
                 Append(its, [title |-> repo, url |-> href,
                                source |-> "github_trending",
                                summary |-> norm_space(a.desc)]))

\* parse_github_trending: one item per <article> with a title anchor
parse_github_trending(html) == TrendingLoop(html.anchors, 1, <<>>)

RECURSIVE GenericLoop(_, _, _, _, _)
GenericLoop(origin, as, i, picks, its) ==
    IF i > Len(as) \/ (its # <<>> /\ Len(its) >= picks) THEN its
    ELSE LET text == norm_space(as[i].text)
             href == IF StartsWith(as[i].href, "/")
                     THEN urljoin(origin, as[i].href) ELSE as[i].href
         IN  IF text = "" \/ Len(text) < 5
             THEN GenericLoop(origin, as, i + 1, picks, its)
             ELSE IF StartsWith(href, "#") \/ StartsWith(href, "javascript:")
             THEN GenericLoop(origin, as, i + 1, picks, its)
             ELSE GenericLoop(origin, as, i + 1, picks,
                      Append(its, [title |-> text, url |-> href,
                                     source |-> origin, summary |-> ""]))

\* parse_generic(url, html, picks): the loop breaks once len(items) >= picks,
\* a test made after an append only
parse_generic(url, html, picks) ==
    GenericLoop(UrlOrigin(url), html.anchors, 1, picks, <<>>)

\* parser(html) if the source has a parser, else parse_generic(url, html, picks)
Extract(source, html, picks) ==
    IF source.parser = "parse_github_trending" THEN parse_github_trending(html)
    ELSE parse_generic(source.url, html, picks)

----------------------------------------------------------------------------
(* Classifier and renderer.  The module is ASCII: the Chinese texts of the *)
(* source are written                                                      *)
(*   section names  "Trends", "OpenSource", "Releases", "Reading"          *)
(*   placeholder    "- (none)"          em dash       " -- "               *)
(*   brackets       "{" and "}"         summary lead  "Highlights: ", "; " *)

\* SECTION_MAP, in the order of the dict literal
SECTION_MAP ==
    << <<"github_trending", "OpenSource">>,
       <<"https://git.news", "OpenSource">>,
       <<"https://github.com", "Reading">>,
       <<"ruanyf_weekly", "Reading">>,
       <<"hn_weekly", "Reading">>,
       <<"https://hn.aimaker.dev", "Reading">>,
       <<"https://hn.buzzing.cc", "Reading">>,
       <<"https://koala-oss.app", "Trends">>,
       <<"https://topsub.cc", "Trends">>,
       <<"https://morerss.com", "Trends">>,
       <<"https://x-daily.pages.dev", "Trends">>,
       <<"https://decohack.com", "Trends">>,
       <<"https://weekly.howie6879.com", "Reading">>,
       <<"https://www.zhihu.com", "Reading">>,
       <<"https://x.com", "Trends">>,
       <<"https://hellogithub.com", "OpenSource">>,
       <<"https://open.itc.cn", "Trends">>,
       <<"https://www.github-zh.com", "Trends">>,
       <<"release_github", "Releases">>,
       <<"release_gitee", "Releases">> >>

DEFAULT_SECTIONS == <<"Trends", "OpenSource", "Releases", "Reading">>

\* the keys of a lookup table
Keys(table) == {table[i][1] : i \in 1..Len(table)}

\* the value of the first entry of the table from index i on whose key is in
\* the set matching, or dflt
RECURSIVE FirstEntry(_, _, _, _)
FirstEntry(table, i, matching, dflt) ==
    IF i > Len(table) THEN dflt
    ELSE IF table[i][1] \in matching THEN table[i][2]
    ELSE FirstEntry(table, i + 1, matching, dflt)

\* the origin classify_item matches key prefixes against
ClassifyOrigin(source) ==
    IF StartsWith(source, "http") THEN "https://" \o UrlNetloc(source) ELSE source

\* a classifier that tries the prefixes before the exact key
ClassifyPrefixFirst(table, it) ==
    IF \E k \in Keys(table) : StartsWith(ClassifyOrigin(it.source), k)
    THEN FirstEntry(table, 1, {k \in Keys(table) : StartsWith(ClassifyOrigin(it.source), k)},
                    "Reading")
    ELSE FirstEntry(table, 1, {it.source}, "Reading")

\* classify_item with the module's SECTION_MAP being table
ClassifyIn(table, it) ==
    IF it.source \in Keys(table)
    THEN FirstEntry(table, 1, {it.source}, "Reading")
    ELSE FirstEntry(table, 1, {k \in Keys(table) : StartsWith(ClassifyOrigin(it.source), k)},
                    "Reading")

classify_item(it) == ClassifyIn(SECTION_MAP, it)

\* title.replace("[", "{").replace("]", "}")
RECURSIVE EscapeBrackets(_)
EscapeBrackets(s) ==
    IF s = "" THEN ""
    ELSE (CASE CharAt(s, 1) = "[" -> "{"
            [] CharAt(s, 1) = "]" -> "}"
            [] OTHER -> CharAt(s, 1)) \o EscapeBrackets(Tail(s))

\* the bullet line of an item, as build_markdown and format_item_line write it
format_item_line(it) ==
    "- [" \o EscapeBrackets(it.title) \o "](" \o it.url \o ")"
        \o (IF it.summary # "" THEN " -- " \o it.summary ELSE "")

\* seq[:n] for n >= 0
Take(seq, n) == SubSeq(seq, 1, Min(n, Len(seq)))

\* the items of a list that classify_item puts in section sec, in list order
Grouped(its, sec) == SelectSeq(its, LAMBDA it : classify_item(it) = sec)

RECURSIVE JoinWith(_, _)
\* sep.join(strs)
JoinWith(strs, sep) ==
    IF strs = <<>> THEN ""
    ELSE IF Len(strs) = 1 THEN strs[1]
    ELSE strs[1] \o sep \o JoinWith(Tail(strs), sep)

\* section lines without the cap
SectionLinesUncapped(its, sec, cap) ==
    <<"## " \o sec>>
        \o (IF Grouped(its, sec) = <<>> THEN <<"- (none)">>
            ELSE [i \in 1..Len(Grouped(its, sec)) |-> format_item_line(Grouped(its, sec)[i])])
        \o <<"">>

\* the lines build_markdown writes for one section, at most cap bullets
SectionLines(its, sec, cap) ==
    LET sec_items == Take(Grouped(its, sec), cap)
    IN  <<"## " \o sec>>
        \o (IF sec_items = <<>> THEN <<"- (none)">>
            ELSE [i \in 1..Len(sec_items) |-> format_item_line(sec_items[i])])
        \o <<"">>

RECURSIVE SectionsFrom(_, _, _)
SectionsFrom(its, k, cap) ==
    IF k > Len(DEFAULT_SECTIONS) THEN <<>>
    ELSE SectionLines(its, DEFAULT_SECTIONS[k], cap) \o SectionsFrom(its, k + 1, cap)

\* a renderer that leaves out the items the seen-store knows
BuildMarkdownUnseenOnly(its, title, date_str, draft) ==
    LET kept == SelectSeq(its, LAMBDA it : ~has_seen(fetched, it.url))
        top == Take(kept, 5)
    IN  << "---",
           "title: \"" \o title \o "\"",
           "date: " \o date_str,
           "draft: " \o (IF draft THEN "true" ELSE "false"),
           "tags: [\"weekly\",\"oss\",\"tech\"]",
           "categories: [\"Weekly\"]",
           "summary: \"" \o "Highlights: "
               \o JoinWith([i \in 1..Len(top) |-> top[i].title], "; ") \o "\"",
           "---",
           "" >> \o SectionsFrom(kept, 1, SectionCap)

\* build_markdown(items, title, date_str, draft): the lines that "\n".join(lines) joins
build_markdown(its, title, date_str, draft) ==
    LET top == Take(its, 5)
        highlights == [i \in 1..Len(top) |-> top[i].title]
        summary == "Highlights: " \o JoinWith(highlights, "; ")
        fm == << "---",
                 "title: \"" \o title \o "\"",
                 "date: " \o date_str,
                 "draft: " \o (IF draft THEN "true" ELSE "false"),
                 "tags: [\"weekly\",\"oss\",\"tech\"]",
                 "categories: [\"Weekly\"]",
                 "summary: \"" \o summary \o "\"",
                 "---",
                 "" >>
    IN  fm \o SectionsFrom(its, 1, SectionCap)

----------------------------------------------------------------------------
(* Stats                                                                   *)

NewStats == [sources |-> <<>>, failures |-> 0, items_total |-> 0]

\* the index of url's record in the dict stats.sources (insertion order), or 0
RecordIndex(sources, url) ==
    IF \E i \in 1..Len(sources) : sources[i].url = url
    THEN CHOOSE i \in 1..Len(sources) : sources[i].url = url
    ELSE 0

\* Stats.start_source: a fresh record under the key url
start_source(st, url) ==
    LET fresh == [url |-> url, ok |-> FALSE, count |-> 0, error |-> "", duration |-> "0.0"]
        i == RecordIndex(st.sources, url)
    IN  IF i = 0 THEN [st EXCEPT !.sources = Append(@, fresh)]
        ELSE [st EXCEPT !.sources[i] = fresh]

\* a finish_source that forgets to count the failure
FinishSourceUncounted(st, url, ok, count, err) ==
    LET done == [url |-> url, ok |-> ok, count |-> count, error |-> err,
                 duration |-> "elapsed"]
        i == CHOOSE j \in 1..Len(st.sources) : st.sources[j].url = url
    IN  [st EXCEPT !.sources[i] = done]

\* Stats.finish_source: the record's ok, count, error and duration are set, and
\* a failure is counted
finish_source(st, url, ok, count, err) ==
    LET done == [url |-> url, ok |-> ok, count |-> count, error |-> err,
                 duration |-> "elapsed"]
        i == RecordIndex(st.sources, url)
        st1 == IF i = 0 THEN [st EXCEPT !.sources = Append(@, done)]
               ELSE [st EXCEPT !.sources[i] = done]
    IN  IF ok THEN st1 ELSE [st1 EXCEPT !.failures = @ + 1]

----------------------------------------------------------------------------
(* The world a run sees: what each fetch answers.                          *)

\* a fetch that raised, and one that returned a page
Raised(msg) == [err |-> msg, html |-> [length |-> 0, bad |-> FALSE, anchors |-> <<>>]]
Page(len, as) == [err |-> "", html |-> [length |-> len, bad |-> FALSE, anchors |-> as]]
Garbled == [err |-> "", html |-> [length |-> 300, bad |-> TRUE, anchors |-> <<>>]]

Anchor(t, h, d) == [text |-> t, href |-> h, desc |-> d]

\* SOURCES: entries 2, 7 and 12 of the source's list, a site-specific one and
\* two generic ones
SOURCES ==
    << [url |-> "https://github.com/trending", parser |-> "parse_github_trending"],
       [url |-> "https://git.news/", parser |-> "None"],
       [url |-> "https://morerss.com/zh", parser |-> "None"] >>

KafkaRepo == Anchor("apache /\n kafka", "/apache/kafka", "Streaming  platform")
KafkaRepoAbs == Anchor("apache / kafka", "https://github.com/apache/kafka ", "")
NoHref == Anchor("x / y", "", "")
KafkaLink == Anchor("apache/kafka", "https://github.com/apache/kafka", "")
KafkaRelease == Anchor("Kafka 4.0 released", "https://github.com/apache/kafka/releases/tag/4.0", "")
NewsPost == Anchor("Git [news]", "/post/1", "")
BackToTop == Anchor("Back to top", "#top", "")
RssDigest == Anchor("RSS digest", "/zh/digest", "")

\* the pages source number i may return
PagesOf(i) ==
    IF i = 1
    THEN { Page(300, <<KafkaRepo, KafkaRepoAbs>>), Page(300, <<NoHref>>), Garbled }
    ELSE IF i = 2
    THEN { Page(300, <<BackToTop, NewsPost>>),
           Page(200, <<KafkaLink, KafkaRelease, NewsPost>>) }
    ELSE { Page(300, <<RssDigest>>) }

\* what the health probe's fetch may answer: a long page, a short one, an error
Probes == { Page(300, <<>>), Page(256, <<>>), Raised("timeout") }

NotAsked == Raised("not asked")

\* a health check that accepts a page of exactly 256 characters
HealthCheckAtLeast(probe) ==
    IF probe.err # "" THEN <<FALSE, "error: " \o probe.err>>
    ELSE IF probe.html.length >= 256 THEN <<TRUE, "ok">>
    ELSE <<FALSE, "html_too_short">>

\* health_check(url): (ok, reason) from what its one fetch answers
health_check(probe) ==
    IF probe.err # "" THEN <<FALSE, "error: " \o probe.err>>
    ELSE IF probe.html.length > 256 THEN <<TRUE, "ok">>
    ELSE <<FALSE, "html_too_short">>

\* what the world answers for source i under the arguments a: the probe (when
\* health checks are on), the fetch with retries (when reached), and whether a
\* SELECT of the seen filter fails (when the filter runs)
Responses(i, a) ==
    LET probes == IF a.health_check THEN Probes ELSE {NotAsked}
        passing == {pr \in probes : ~a.health_check \/ health_check(pr)[1]}
    IN  { [probe |-> pr, fetch |-> NotAsked, db_error |-> FALSE] : pr \in probes \ passing }
        \cup { [probe |-> pr, fetch |-> Raised("connection refused"), db_error |-> FALSE] :
                 pr \in passing }
        \cup UNION { { [probe |-> pr, fetch |-> f, db_error |-> e] :
                         pr \in passing,
                         e \in (IF a.skip_check \/ f.html.bad \/ f.html.anchors = <<>>
                                THEN {FALSE} ELSE BOOLEAN) } : f \in PagesOf(i) }

----------------------------------------------------------------------------
(* run(): one pass of its for loop.                                        *)

\* how far the try block got: the stage that raised ("" if none) and its
\* message, whether the health check skipped the source and why, whether
\* raw_htmls[url] was assigned, whether finish_source(url, True, ...) and
\* all_items.extend(fresh) were reached, and fresh
TryResult(raised, err, skipped, reason, html_kept, finished, fresh) ==
    [raised |-> raised, err |-> err, skipped |-> skipped, reason |-> reason,
     html_kept |-> html_kept, finished |-> finished, fresh |-> fresh]

\* the stages of the try block, given the health check's answer hc, the
\* extracted and truncated list its and the list fresh the seen filter keeps
TryStages(a, r, hc, its, fresh) ==
    IF a.health_check /\ ~hc[1]
    THEN TryResult("", "", TRUE, hc[2], FALSE, FALSE, <<>>)
    ELSE IF r.fetch.err # ""
    THEN TryResult("fetch", r.fetch.err, FALSE, "", FALSE, FALSE, <<>>)
    ELSE IF r.fetch.html.bad
    THEN TryResult("extract", "unparseable", FALSE, "", TRUE, FALSE, <<>>)
    ELSE IF r.db_error /\ ~a.skip_check /\ its # <<>>
    THEN TryResult("has_seen", "database is locked", FALSE, "", TRUE, FALSE, <<>>)
    ELSE IF a.sleep < 0
    THEN TryResult("sleep", "sleep length must be non-negative", FALSE, "", TRUE, TRUE, fresh)
    ELSE TryResult("", "", FALSE, "", TRUE, TRUE, fresh)

\* if skip_check: fresh = items, else the items has_seen does not know
SeenFilter(a, db, its) ==
    IF a.skip_check THEN its ELSE SelectSeq(its, LAMBDA it : ~has_seen(db, it.url))

TryFiltered(a, db, r, its) ==
    TryStages(a, r, health_check(r.probe), its, SeenFilter(a, db, its))

\* the body of the try block for source i: items = parser(html) or
\* parse_generic(url, html, picks=max_per_source*2); items = items[:max_per_source]
TryBody(i, a, db, r) ==
    TryFiltered(a, db, r,
        Take(Extract(SOURCES[i], r.fetch.html, a.max_per_source * 2), a.max_per_source))

\* a handler that lets an exception of the seen filter escape
CaughtButSeenFilter(stage) == stage # "has_seen"

\* except Exception: every stage of the try block is inside it
Caught(stage) == stage \in {"fetch", "extract", "has_seen", "sleep"}

\* a loop body whose health-check skip leaves the source's record unfinished
StatsAfterSkipUnrecorded(st0, url, t) ==
    IF t.skipped THEN st0
    ELSE IF t.raised # "" /\ Caught(t.raised)
    THEN finish_source(IF t.finished THEN finish_source(st0, url, TRUE, Len(t.fresh), "")
                       ELSE st0,
                       url, FALSE, 0, t.err)
    ELSE IF t.finished THEN finish_source(st0, url, TRUE, Len(t.fresh), "")
    ELSE st0

\* stats after the try block and its handler: the source is finished by the
\* health check's continue, by the end of the block, by the handler, or by the
\* last two in turn
StatsAfter(st0, url, t) ==
    IF t.skipped THEN finish_source(st0, url, FALSE, 0, t.reason)
    ELSE IF t.raised # "" /\ Caught(t.raised)
    THEN finish_source(IF t.finished THEN finish_source(st0, url, TRUE, Len(t.fresh), "")
                       ELSE st0,
                       url, FALSE, 0, t.err)
    ELSE IF t.finished THEN finish_source(st0, url, TRUE, Len(t.fresh), "")
    ELSE st0

AfterTry(st0, raw, all, url, r, t) ==
    [stats |-> StatsAfter(st0, url, t),
     raw_htmls |-> IF t.html_kept
                   THEN [u \in (DOMAIN raw) \cup {url} |->
                            IF u = url THEN r.fetch.html ELSE raw[u]]
                   ELSE raw,
     all_items |-> all \o t.fresh,
     escaped |-> t.raised # "" /\ ~Caught(t.raised)]

\* stats, raw_htmls and all_items after the loop body for source i
LoopBody(st, raw, all, i, a, db, r) ==
    AfterTry(start_source(st, SOURCES[i].url), raw, all, SOURCES[i].url, r,
             TryBody(i, a, db, r))

----------------------------------------------------------------------------
(* Releases from bookmarks.                                                *)

NoInfo == [tag |-> "", name |-> "", url |-> "", published_at |-> ""]

Repo(pf, o, r, info) == [platform |-> pf, owner |-> o, repo |-> r, info |-> info]

KafkaLatest ==
    Repo("github", "apache", "kafka",
         [tag |-> "4.0", name |-> "Apache Kafka 4.0",
          url |-> "https://github.com/apache/kafka/releases/tag/4.0", published_at |-> ""])
FlinkUnresolved == Repo("github", "apache", "flink", NoInfo)
DubboLatest ==
    Repo("gitee", "apache", "dubbo",
         [tag |-> "v3", name |-> "v3",
          url |-> "https://gitee.com/apache/dubbo/releases/tag/v3", published_at |-> ""])

\* what load_repo_candidates_from_bookmarks samples and the release lookups
\* answer: a repository whose three lookups all fail has no info (None)
ReleaseWorlds ==
    { [repos |-> rs, db_error |-> e] :
        rs \in { <<>>, <<FlinkUnresolved, KafkaLatest>>, <<DubboLatest>> },
        e \in BOOLEAN }

RECURSIVE ReleaseLoop(_, _, _, _, _)
ReleaseLoop(repos, i, db, skip_check, its) ==
    IF i > Len(repos) THEN its
    ELSE LET r == repos[i]
             it == [title |-> r.owner \o "/" \o r.repo \o " " \o r.info.tag,
                    url |-> r.info.url,
                    source |-> IF r.platform = "github" THEN "release_github"
                               ELSE "release_gitee",
                    summary |-> r.info.name]
         IN  IF r.info = NoInfo THEN ReleaseLoop(repos, i + 1, db, skip_check, its)
             ELSE IF skip_check \/ ~has_seen(db, it.url)
             THEN ReleaseLoop(repos, i + 1, db, skip_check, Append(its, it))
             ELSE ReleaseLoop(repos, i + 1, db, skip_check, its)

collect_release_items(repos, db, skip_check) == ReleaseLoop(repos, 1, db, skip_check, <<>>)

----------------------------------------------------------------------------
(* Enrichment without deep scan.                                           *)

\* generate_summary: s if len(s) <= 100 else s[:97] + "..."
generate_summary(summary) ==
    LET t == norm_space(summary)
    IN  IF Len(t) <= 100 THEN t ELSE SubSeq(t, 1, 97) \o "..."

\* what the deep scan's fetch of an item page answers: an error, a page that
\* cannot be parsed, or a page with its metadata
ScanRaised(msg) ==
    [err |-> msg, bad |-> FALSE, og_title |-> "", title_tag |-> "", author |-> "",
     published_at |-> "", content |-> ""]
ScanGarbled == [ScanRaised("") EXCEPT !.bad = TRUE]
ScanPage(og, tt, au, pub, body) ==
    [err |-> "", bad |-> FALSE, og_title |-> og, title_tag |-> tt, author |-> au,
     published_at |-> pub, content |-> body]
NotScanned == ScanRaised("not asked")

\* extract_metadata_from_html: og:title, else the <title> text; the author and
\* publication time meta fields; the main text
extract_metadata_from_html(page) ==
    [title |-> IF norm_space(page.og_title) # "" THEN norm_space(page.og_title)
               ELSE norm_space(page.title_tag),
     author |-> norm_space(page.author),
     published_at |-> norm_space(page.published_at),
     content |-> page.content]

\* the meta of an item that is not scanned, or whose scan raised
PlainMeta(it) == [title |-> it.title, author |-> "", published_at |-> "", content |-> ""]

\* the try block of enrich_items and its handler
MetaOf(it, deep_scan, answer) ==
    IF ~deep_scan THEN PlainMeta(it)
    ELSE IF answer.err # "" \/ answer.bad THEN PlainMeta(it)
    ELSE extract_metadata_from_html(answer)

\* the item enrich_items appends (the tags are left out of the model)
EnrichedItem(it, meta) ==
    [title |-> IF meta.title # "" THEN meta.title ELSE it.title,
     url |-> it.url, source |-> it.source,
     summary |-> generate_summary(IF it.summary # "" THEN it.summary ELSE meta.content),
     author |-> meta.author, published_at |-> meta.published_at]

\* an enrichment that leaves out the items whose scan failed
EnrichSkipFailed(its, deep_scan, answers) ==
    LET kept == SelectSeq([i \in 1..Len(its) |-> i],
                          LAMBDA i : ~deep_scan \/ (answers[i].err = "" /\ ~answers[i].bad))
    IN  [k \in 1..Len(kept) |->
            EnrichedItem(its[kept[k]], MetaOf(its[kept[k]], deep_scan, answers[kept[k]]))]

\* enrich_items(items, deep_scan, ...), answers[i] being what the scan of item i
\* is answered
EnrichWith(its, deep_scan, answers) ==
    [i \in 1..Len(its) |-> EnrichedItem(its[i], MetaOf(its[i], deep_scan, answers[i]))]

\* enrich_items with deep_scan = False
enrich_items(its) == EnrichWith(its, FALSE, [i \in 1..Len(its) |-> NotScanned])

----------------------------------------------------------------------------
(* Hacker News helpers.                                                    *)

TECH_KEYWORDS ==
    << "AI", "ML", "Python", "Go", "Rust", "JavaScript", "TypeScript",
       "Docker", "Kubernetes", "Linux", "Unix", "WebAssembly", "Wasm",
       "PostgreSQL", "SQLite", "MySQL", "Redis", "Nginx", "Apache",
       "Cloudflare", "OpenAI", "LLM", "Transformer", "GraphQL", "gRPC" >>

UpperLetters == "ABCDEFGHIJKLMNOPQRSTUVWXYZ"
LowerLetters == "abcdefghijklmnopqrstuvwxyz"
WordChars ==
    {CharAt(UpperLetters, i) : i \in 1..26} \cup {CharAt(LowerLetters, i) : i \in 1..26}
        \cup {CharAt("0123456789_", i) : i \in 1..11}

\* the position of c in an alphabet, or 0
LetterIndex(alphabet, c) ==
    IF \E i \in 1..Len(alphabet) : CharAt(alphabet, i) = c
    THEN CHOOSE i \in 1..Len(alphabet) : CharAt(alphabet, i) = c
    ELSE 0

LowerChar(c) ==
    IF LetterIndex(UpperLetters, c) = 0 THEN c
    ELSE CharAt(LowerLetters, LetterIndex(UpperLetters, c))
UpperChar(c) ==
    IF LetterIndex(LowerLetters, c) = 0 THEN c
    ELSE CharAt(UpperLetters, LetterIndex(LowerLetters, c))

RECURSIVE LowerRange(_, _, _)
\* characters lo..hi of s in lowercase
LowerRange(s, lo, hi) ==
    IF lo > hi THEN ""
    ELSE IF lo = hi THEN LowerChar(CharAt(s, lo))
    ELSE LowerRange(s, lo, (lo + hi) \div 2) \o LowerRange(s, (lo + hi) \div 2 + 1, hi)

\* str.lower()
LowerStr(s) == LowerRange(s, 1, Len(s))

\* str.isupper(): a cased character, and no lowercase one
IsUpperStr(p) ==
    /\ \E i \in 1..Len(p) : LetterIndex(UpperLetters, CharAt(p, i)) # 0
    /\ \A i \in 1..Len(p) : LetterIndex(LowerLetters, CharAt(p, i)) = 0

\* str.capitalize()
Capitalize(p) ==
    IF p = "" THEN "" ELSE UpperChar(CharAt(p, 1)) \o LowerStr(Tail(p))

\* title_case on one part between whitespace
TitleWord(p) ==
    IF IsUpperStr(p) /\ Len(p) <= 4 THEN p
    ELSE IF p # "" /\ (LetterIndex(UpperLetters, CharAt(p, 1)) # 0
                       \/ LetterIndex(LowerLetters, CharAt(p, 1)) # 0)
    THEN Capitalize(p)
    ELSE p

RECURSIVE TitleCaseFrom(_, _, _)
\* title_case over a normalized text: the parts between single spaces, from
\* position i on, cur being the part read so far
TitleCaseFrom(s, i, cur) ==
    IF i > Len(s) THEN TitleWord(cur)
    ELSE IF CharAt(s, i) = " " THEN TitleWord(cur) \o " " \o TitleCaseFrom(s, i + 1, "")
    ELSE TitleCaseFrom(s, i + 1, cur \o CharAt(s, i))

\* standardize_title(title) = title_case(norm_space(title))
standardize_title(title) == TitleCaseFrom(norm_space(title), 1, "")

\* \bkw\b matches at position i of the lowercased text low (kw lowercased)
KeywordAt(low, kw, i) ==
    /\ i + Len(kw) - 1 <= Len(low)
    /\ SubSeq(low, i, i + Len(kw) - 1) = kw
    /\ i = 1 \/ CharAt(low, i - 1) \notin WordChars
    /\ i + Len(kw) > Len(low) \/ CharAt(low, i + Len(kw)) \notin WordChars

\* the quote mark put around a keyword (the source's backtick, written as an
\* apostrophe)
CodeQuote == "'"

RECURSIVE HighlightRange(_, _, _, _, _)
\* characters lo..hi of text with a quote before every position in starts and
\* after the n-th character from it
HighlightRange(text, starts, n, lo, hi) ==
    IF lo > hi THEN ""
    ELSE IF lo = hi
    THEN (IF lo \in starts THEN CodeQuote ELSE "") \o CharAt(text, lo)
             \o (IF lo - n + 1 \in starts THEN CodeQuote ELSE "")
    ELSE HighlightRange(text, starts, n, lo, (lo + hi) \div 2)
             \o HighlightRange(text, starts, n, (lo + hi) \div 2 + 1, hi)

\* pat.sub for one keyword: every match is put in quotes (two matches of one
\* keyword between word boundaries do not overlap)
HighlightOne(text, low, kw) ==
    HighlightRange(text, {i \in 1..Len(low) : KeywordAt(low, kw, i)}, Len(kw), 1, Len(text))

RECURSIVE HighlightLoop(_, _)
\* the loop over TECH_KEYWORDS from keyword k on
HighlightLoop(out, k) ==
    IF k > Len(TECH_KEYWORDS) THEN out
    ELSE CHOOSE r \in { HighlightLoop(subbed, k + 1) :
                          subbed \in { HighlightOne(out, LowerStr(out),
                                                    LowerStr(TECH_KEYWORDS[k])) } } : TRUE

highlight_keywords(text) == HighlightLoop(text, 1)

\* optimize_items: the title standardized and highlighted, the summary shortened
\* and highlighted
optimize_items(its) ==
    [i \in 1..Len(its) |->
        [title |-> highlight_keywords(standardize_title(its[i].title)),
         url |-> its[i].url, source |-> its[i].source,
         summary |-> highlight_keywords(generate_summary(its[i].summary))]]

\* a row tr.athing of the front page and the subtext row after it: whether it
\* has a title link, the link's text and href, and the texts of the score, the
\* user link and the comments link ("" where the element is missing)
HnRow(has_title, t, h, points, user, comments) ==
    [has_title |-> has_title, text |-> t, href |-> h, points |-> points,
     user |-> user, comments |-> comments]

\* most items parse_hn_front returns
HnFrontCap == 10

\* " | ".join of the non-empty parts among points, "by <author>", comments
HnSummary(row) ==
    JoinWith(SelectSeq(<< norm_space(row.points),
                          IF norm_space(row.user) # "" THEN "by " \o norm_space(row.user)
                          ELSE "",
                          norm_space(row.comments) >>,
                       LAMBDA p : p # ""),
             " | ")

RECURSIVE HnFrontLoop(_, _, _)
HnFrontLoop(rows, i, its) ==
    IF i > Len(rows) \/ Len(its) >= HnFrontCap THEN its
    ELSE IF ~rows[i].has_title THEN HnFrontLoop(rows, i + 1, its)
    ELSE HnFrontLoop(rows, i + 1,
             Append(its, Item(norm_space(rows[i].text), rows[i].href,
                              "https://news.ycombinator.com", HnSummary(rows[i]))))

\* parse_hn_front(html)
parse_hn_front(rows) == HnFrontLoop(rows, 1, <<>>)

----------------------------------------------------------------------------
(* Segment updater.                                                        *)

\* a slice bound as list slicing reads it: negative bounds count from the end,
\* and the result is clamped to 0..n
SliceIndex(k, n) == IF k < 0 THEN Max(k + n, 0) ELSE Min(k, n)

\* lines[lo:hi] = new_lines
SliceAssign(lines, lo, hi, new_lines) ==
    SubSeq(lines, 1, SliceIndex(lo, Len(lines)))
        \o new_lines
        \o SubSeq(lines, Max(SliceIndex(hi, Len(lines)), SliceIndex(lo, Len(lines))) + 1,
                  Len(lines))

\* its[:n] for any integer n
Slice(its, n) == SubSeq(its, 1, SliceIndex(n, Len(its)))

\* new lines that are not padded with the placeholder
NewLinesUnpadded(start_line, end_line, its) ==
    [i \in 1..Len(Slice(its, Max(1, end_line - start_line + 1))) |->
        format_item_line(its[i])]

\* [format_item_line(it) for it in items[:max(1, end_line - start_line + 1)]],
\* then "- (none)" appended while there are fewer than end_line - start_line + 1
NewLines(start_line, end_line, its) ==
    [i \in 1..Max(Len(Slice(its, Max(1, end_line - start_line + 1))),
                  end_line - start_line + 1) |->
        IF i <= Len(Slice(its, Max(1, end_line - start_line + 1)))
        THEN format_item_line(its[i]) ELSE "- (none)"]

\* update_markdown_segment: the lines written back to the file
update_markdown_segment(lines, start_line, end_line, its) ==
    SliceAssign(lines, start_line - 1, end_line, NewLines(start_line, end_line, its))

\* the weekly document a segment update addresses
WeeklyLines == <<"## Trends", "- [old](https://old.example/1)", "- (none)", "">>

----------------------------------------------------------------------------
(* main(): one invocation of the script, one_round.                        *)

\* the command lines of the model
ArgChoices ==
    [skip_check : BOOLEAN, overwrite : BOOLEAN, health_check : BOOLEAN,
     max_per_source : {MaxPerSource}, sleep : {1}, draft : {FALSE},
     report : {TRUE}, monitor_webhook : {"", "https://hooks.example/weekly"},
     daemon : {FALSE}, hn_only : {FALSE}, segment_file : {""},
     segment_start : {0}, segment_end : {0}]

\* dt.date.today() on the day of the invocation, and its ISO week slug
Today == "2024-01-08"
iso_week_slug(date_str) == IF date_str = "2024-01-08" THEN "2024-02" ELSE "2024-01"

RECURSIVE PersistLoop(_, _, _, _, _, _)
\* the loop that records the items: a failing INSERT is logged and skipped
PersistLoop(db, its, i, overwrite, date_str, failing) ==
    IF i > Len(its) THEN db
    ELSE IF i \in failing THEN PersistLoop(db, its, i + 1, overwrite, date_str, failing)
    ELSE PersistLoop(
             IF overwrite THEN mark_seen_overwrite(db, its[i], date_str)
             ELSE mark_seen(db, its[i], date_str),
             its, i + 1, overwrite, date_str, failing)

NoResponse == [probe |-> NotAsked, fetch |-> NotAsked, db_error |-> FALSE]

\* the stores earlier invocations can have left: none, the store after a run that
\* emitted the first trending repository, and the store after further runs that
\* emitted every item of the model's pages and releases
EarlierDay == "2024-01-01"
StoreOf(its) == PersistLoop(<< >>, its, 1, FALSE, EarlierDay, {})
PriorStores ==
    LET trending == parse_github_trending(Page(300, <<KafkaRepo, KafkaRepoAbs>>).html)
        news == parse_generic(SOURCES[2].url,
                              Page(200, <<KafkaLink, KafkaRelease, NewsPost>>).html, 4)
        rels == collect_release_items(<<KafkaLatest, DubboLatest>>, << >>, TRUE)
    IN  { << >>,
          StoreOf(dedup(trending)),
          StoreOf(enrich_items(trending \o news \o rels)) }

\* no call of fetch_with_retries is being followed
NoFetch == [retries |-> 0, backoff |-> 0, i |-> 0, last_err |-> "", at |-> "idle", value |-> ""]

\* the locals of run() and one_round before they are assigned
InitLocals ==
    /\ src = 0
    /\ resp = NoResponse
    /\ stats = NewStats
    /\ raw_htmls = << >>
    /\ all_items = << >>
    /\ items = << >>
    /\ md = << >>
    /\ alerts = << >>
    /\ fw = NoFetch

\* python scripts/fetch_weekly.py ...: the arguments are parsed, one_round is
\* about to run; the store is what earlier invocations left
Init ==
    /\ fetched \in PriorStores
    /\ seg_lines = WeeklyLines
    /\ calls = << >>
    /\ rets = << >>
    /\ pc = "one_round"
    /\ args \in ArgChoices
    /\ conn = "closed"
    /\ InitLocals

\* conn = get_db() raises (the database file cannot be opened, or it is locked
\* when the table is created): the exception leaves one_round before a
\* connection is assigned.  The loop of the daemon sees such cycles.
GetDbFails ==
    /\ pc = "one_round"
    /\ Len(rets) < MaxCycles
    /\ calls' = Append(calls, [op |-> "one_round", store |-> fetched, conn |-> conn])
    /\ pc' = "crashed"
    /\ UNCHANGED <<fetched, args, conn, src, resp, stats, raw_htmls, all_items, items, md,
                   seg_lines, rets, alerts, fw>>

\* args.hn_only and args.segment_file and args.segment_start and args.segment_end
HnPath(a) ==
    a.hn_only /\ a.segment_file # "" /\ a.segment_start # 0 /\ a.segment_end # 0

\* one_round is called: conn = get_db(), then the segment path or run() is
\* entered.  calls records the store and the connection state the call found.
GetDb ==
    /\ pc = "one_round"
    /\ Len(rets) < MaxCycles
    /\ conn' = "open"
    /\ calls' = Append(calls, [op |-> "one_round", store |-> fetched, conn |-> conn])
    /\ IF HnPath(args) THEN pc' = "hn" /\ src' = src
       ELSE pc' = "run" /\ src' = 1
    /\ UNCHANGED <<fetched, args, resp, stats, raw_htmls, all_items, items, md,
                   seg_lines, rets, alerts, fw>>

\* the loop body's results are stored; an exception that escaped ends run()
Looped(after) ==
    /\ stats' = after.stats
    /\ raw_htmls' = after.raw_htmls
    /\ all_items' = after.all_items
    /\ IF after.escaped
       THEN pc' = "crashed" /\ src' = src
       ELSE pc' = "run" /\ src' = src + 1

\* one pass of the for loop of run()
RunSource ==
    /\ pc = "run"
    /\ src <= Len(SOURCES)
    /\ \E r \in Responses(src, args) :
          /\ resp' = r
          /\ Looped(LoopBody(stats, raw_htmls, all_items, src, args, fetched, r))
    /\ UNCHANGED <<fetched, args, conn, items, md, seg_lines, calls, rets, alerts, fw>>

\* return dedup(all_items), raw_htmls, stats
RunReturn ==
    /\ pc = "run"
    /\ src > Len(SOURCES)
    /\ items' = dedup(all_items)
    /\ pc' = "releases"
    /\ UNCHANGED <<fetched, args, conn, src, resp, stats, raw_htmls, all_items, md,
                   seg_lines, calls, rets, alerts, fw>>

\* release_items = collect_release_items(...); items_raw.extend(release_items)
CollectReleases ==
    /\ pc = "releases"
    /\ \E w \in ReleaseWorlds :
          IF w.db_error /\ ~args.skip_check /\ \E i \in 1..Len(w.repos) : w.repos[i].info # NoInfo
          THEN pc' = "crashed" /\ items' = items
          ELSE /\ items' = items \o collect_release_items(w.repos, fetched, args.skip_check)
               /\ pc' = "enrich"
    /\ UNCHANGED <<fetched, args, conn, src, resp, stats, raw_htmls, all_items, md,
                   seg_lines, calls, rets, alerts, fw>>

\* items = enrich_items(items_raw, ...); stats.finish(total_items=len(items))
Enrich ==
    /\ pc = "enrich"
    /\ items' = enrich_items(items)
    /\ stats' = [stats EXCEPT !.items_total = Len(items)]
    /\ pc' = "write"
    /\ UNCHANGED <<fetched, args, conn, src, resp, raw_htmls, all_items, md,
                   seg_lines, calls, rets, alerts, fw>>

\* md = build_markdown(...); the file is written, unless open() or write() raises
WriteDoc ==
    /\ pc = "write"
    /\ \/ /\ md' = build_markdown(items, "Weekly " \o iso_week_slug(Today),
                                  Today, args.draft)
          /\ pc' = "persist"
       \/ /\ md' = md
          /\ pc' = "crashed"
    /\ UNCHANGED <<fetched, args, conn, src, resp, stats, raw_htmls, all_items, items,
                   seg_lines, calls, rets, alerts, fw>>

\* the items are recorded, then conn.close(); at most one INSERT of a run fails
PersistAndClose ==
    /\ pc = "persist"
    /\ \E failing \in {{}} \cup {{i} : i \in 1..Len(items)} :
          fetched' = PersistLoop(fetched, items, 1, args.overwrite, Today, failing)
    /\ conn' = "closed"
    /\ pc' = "report"
    /\ UNCHANGED <<args, src, resp, stats, raw_htmls, all_items, items, md,
                   seg_lines, calls, rets, alerts, fw>>

\* send_alert(webhook, payload): nothing without a webhook, else the payload is
\* posted (a failing post is logged)
send_alert(sent, webhook, payload) ==
    IF webhook = "" THEN sent ELSE Append(sent, payload)

\* a threshold that asks for more than a third of the sources
ExceedsThird(failures, total) == 3 * failures > total

\* stats.failures >= max(1, len(SOURCES)//3)
ThresholdReached(failures, total) == failures >= Max(1, total \div 3)

\* the alerts after the monitoring threshold test
ThresholdAlert(sent, a, st) ==
    IF ThresholdReached(st.failures, Len(SOURCES))
    THEN send_alert(sent, a.monitor_webhook,
                    [type |-> "source_failures", count |-> st.failures,
                     total_sources |-> Len(SOURCES)])
    ELSE sent

\* if args.report: generate_report, whose failure is caught and alerted; then
\* the monitoring threshold; one_round returns and the process ends
ReportAndAlert ==
    /\ pc = "report"
    /\ \E report_fails \in (IF args.report THEN BOOLEAN ELSE {FALSE}) :
          alerts' = ThresholdAlert(
                        IF report_fails
                        THEN send_alert(alerts, args.monitor_webhook,
                                        [type |-> "report_error", count |-> 0,
                                         total_sources |-> 0])
                        ELSE alerts,
                        args, stats)
    /\ pc' = "exit"
    /\ UNCHANGED <<fetched, args, conn, src, resp, stats, raw_htmls, all_items, items, md,
                   seg_lines, calls, rets, fw>>

\* without --daemon an exception leaves one_round and main: the process ends
\* with a traceback, and with it the connection
Crash ==
    /\ pc = "crashed"
    /\ ~args.daemon
    /\ conn' = "closed"
    /\ pc' = "aborted"
    /\ UNCHANGED <<fetched, args, src, resp, stats, raw_htmls, all_items, items, md,
                   seg_lines, calls, rets, alerts, fw>>

----------------------------------------------------------------------------
(* one_round: the HN segment-update path.                                  *)

HnRustRow ==
    HnRow(TRUE, "rust 1.80   released", "https://blog.rust-lang.org/1.80",
          "120 points", "pg", "45 comments")
HnShowRow == HnRow(TRUE, "Show HN: SQLite [in] wasm", "item?id=1", "", "", "")
HnJobRow == HnRow(FALSE, "", "", "", "", "")

\* what the fetch of the front page answers
HnFrontPages ==
    { [err |-> "timeout", rows |-> <<>>],
      [err |-> "", rows |-> <<>>],
      [err |-> "", rows |-> <<HnRustRow>>],
      [err |-> "", rows |-> <<HnRustRow, HnJobRow, HnShowRow>>] }

\* the front page, and whether a SELECT of the seen filter fails (when it runs)
HnResponses(a) ==
    UNION { { [front |-> p, db_error |-> e] :
                e \in (IF a.skip_check \/ p.err # "" \/ parse_hn_front(p.rows) = <<>>
                       THEN {FALSE} ELSE BOOLEAN) } : p \in HnFrontPages }

\* a selection without the fallback to the unfiltered candidates
HnSelectedFreshOnly(a, db, raw_items) ==
    IF a.skip_check THEN raw_items
    ELSE SelectSeq(raw_items, LAMBDA it : ~has_seen(db, it.url))

\* selected = raw_items if skip_check, else fresh or raw_items
HnSelected(a, db, raw_items) ==
    IF a.skip_check THEN raw_items
    ELSE IF SelectSeq(raw_items, LAMBDA it : ~has_seen(db, it.url)) # <<>>
    THEN SelectSeq(raw_items, LAMBDA it : ~has_seen(db, it.url))
    ELSE raw_items

\* opt = optimize_items(selected)[:need], need = max(1, segment_end - segment_start + 1)
HnOpt(a, db, raw_items) ==
    Take(optimize_items(HnSelected(a, db, raw_items)),
         Max(1, a.segment_end - a.segment_start + 1))

\* the try block up to opt: the front page is fetched and parsed, the candidates
\* are selected and optimized; an exception goes to the handler
HnFetch ==
    /\ pc = "hn"
    /\ \E r \in HnResponses(args) :
          /\ resp' = r
          /\ IF r.front.err # "" \/ r.db_error
             THEN pc' = "hn_except" /\ items' = items
             ELSE /\ items' = HnOpt(args, fetched, parse_hn_front(r.front.rows))
                  /\ pc' = "hn_update"
    /\ UNCHANGED <<fetched, args, conn, src, stats, raw_htmls, all_items, md,
                   seg_lines, calls, rets, alerts, fw>>

\* a segment update that records the items before it touches the file
HnUpdateAfterPersist ==
    /\ pc = "hn_update"
    /\ fetched' = PersistLoop(fetched, items, 1, args.overwrite, Today, {})
    /\ \/ /\ seg_lines' = update_markdown_segment(seg_lines, args.segment_start,
                                                  args.segment_end, items)
          /\ pc' = "hn_finally"
       \/ /\ seg_lines' = seg_lines
          /\ pc' = "hn_except"
    /\ UNCHANGED <<args, conn, src, resp, stats, raw_htmls, all_items, items, md,
                   calls, rets, alerts, fw>>

\* update_markdown_segment(seg_path, ...), which raises when the file cannot be
\* read or written
HnUpdate ==
    /\ pc = "hn_update"
    /\ \/ /\ seg_lines' = update_markdown_segment(seg_lines, args.segment_start,
                                                  args.segment_end, items)
          /\ pc' = "hn_persist"
       \/ /\ seg_lines' = seg_lines
          /\ pc' = "hn_except"
    /\ UNCHANGED <<fetched, args, conn, src, resp, stats, raw_htmls, all_items, items, md,
                   calls, rets, alerts, fw>>

\* the items written are recorded; at most one INSERT fails
HnPersist ==
    /\ pc = "hn_persist"
    /\ \E failing \in {{}} \cup {{i} : i \in 1..Len(items)} :
          fetched' = PersistLoop(fetched, items, 1, args.overwrite, Today, failing)
    /\ pc' = "hn_finally"
    /\ UNCHANGED <<args, conn, src, resp, stats, raw_htmls, all_items, items, md,
                   seg_lines, calls, rets, alerts, fw>>

\* except Exception: the failure is logged
HnExcept ==
    /\ pc = "hn_except"
    /\ pc' = "hn_finally"
    /\ UNCHANGED <<fetched, args, conn, src, resp, stats, raw_htmls, all_items, items, md,
                   seg_lines, calls, rets, alerts, fw>>

\* finally: conn.close(); return
HnFinally ==
    /\ pc = "hn_finally"
    /\ conn' = "closed"
    /\ pc' = "exit"
    /\ UNCHANGED <<fetched, args, src, resp, stats, raw_htmls, all_items, items, md,
                   seg_lines, calls, rets, alerts, fw>>

----------------------------------------------------------------------------
(* main(): the daemon loop.                                                *)

\* a loop that lets the exception of a cycle end the process
DaemonRethrow ==
    /\ pc = "crashed"
    /\ args.daemon
    /\ conn' = "closed"
    /\ pc' = "aborted"
    /\ UNCHANGED <<fetched, args, src, resp, stats, raw_htmls, all_items, items, md,
                   seg_lines, calls, rets, alerts, fw>>

\* except Exception: the failure of the cycle is logged and alerted.  one_round's
\* frame is gone and nothing refers to its connection any more: the program has
\* not closed it, and the interpreter may or may not have finalized it
DaemonCatch ==
    /\ pc = "crashed"
    /\ args.daemon
    /\ alerts' = send_alert(alerts, args.monitor_webhook,
                            [type |-> "fatal", count |-> 0, total_sources |-> 0])
    /\ rets' = Append(rets, "raised")
    /\ conn' \in {conn, "closed"}
    /\ pc' = "sleep"
    /\ UNCHANGED <<fetched, args, src, resp, stats, raw_htmls, all_items, items, md,
                   seg_lines, calls, fw>>

\* one_round returned to the loop
DaemonReturned ==
    /\ pc = "exit"
    /\ args.daemon
    /\ rets' = Append(rets, "returned")
    /\ pc' = "sleep"
    /\ UNCHANGED <<fetched, args, conn, src, resp, stats, raw_htmls, all_items, items, md,
                   seg_lines, calls, alerts, fw>>

\* time.sleep(max(10, args.interval)) is over and the loop calls one_round
\* again, whose locals are new
DaemonWake ==
    /\ pc = "sleep"
    /\ pc' = "one_round"
    /\ src' = 0
    /\ resp' = NoResponse
    /\ stats' = NewStats
    /\ raw_htmls' = << >>
    /\ all_items' = << >>
    /\ items' = << >>
    /\ md' = << >>
    /\ UNCHANGED <<fetched, args, conn, seg_lines, calls, rets, alerts, fw>>

Next ==
    \/ GetDb
    \/ RunSource
    \/ RunReturn
    \/ CollectReleases
    \/ Enrich
    \/ WriteDoc
    \/ PersistAndClose
    \/ ReportAndAlert
    \/ Crash

Spec == Init /\ [][Next]_vars

\* python scripts/fetch_weekly.py ... for the main pipeline
PipelineArgs ==
    [skip_check : {FALSE}, overwrite : {FALSE}, health_check : {FALSE},
     max_per_source : {MaxPerSource}, sleep : {1}, draft : {FALSE},
     report : {TRUE}, monitor_webhook : {""},
     daemon : {FALSE}, hn_only : {FALSE}, segment_file : {""},
     segment_start : {0}, segment_end : {0}]

\* ... and for the segment path (which --hn-only false selects)
SegmentArgs ==
    [skip_check : BOOLEAN, overwrite : {FALSE}, health_check : {FALSE},
     max_per_source : {MaxPerSource}, sleep : {1}, draft : {FALSE},
     report : {TRUE}, monitor_webhook : {""},
     daemon : {FALSE}, hn_only : {TRUE}, segment_file : {"content/weekly/2024-02.md"},
     segment_start : {2, 3}, segment_end : {3}]

\* the same command lines with --daemon true
Daemonized(choices) == {[a EXCEPT !.daemon = TRUE] : a \in choices}

InitMain(stores, choices) ==
    /\ fetched \in stores
    /\ seg_lines = WeeklyLines
    /\ calls = << >>
    /\ rets = << >>
    /\ pc = "one_round"
    /\ args \in choices
    /\ conn = "closed"
    /\ InitLocals

(* SpecRound: one invocation without --daemon, of the main pipeline or of   *)
(* the segment path.                                                        *)

InitRound == InitMain(PriorStores, PipelineArgs \cup SegmentArgs)

NextRound ==
    \/ Next
    \/ HnFetch
    \/ HnUpdate
    \/ HnPersist
    \/ HnExcept
    \/ HnFinally

SpecRound == InitRound /\ [][NextRound]_vars

(* SpecDaemon: main() with --daemon true, MaxCycles cycles of the main      *)
(* pipeline or of the segment path.                                         *)

InitDaemon == InitMain({<< >>}, Daemonized(PipelineArgs \cup SegmentArgs))

NextDaemon ==
    \/ GetDb
    \/ GetDbFails
    \/ RunSource
    \/ RunReturn
    \/ CollectReleases
    \/ Enrich
    \/ WriteDoc
    \/ PersistAndClose
    \/ ReportAndAlert
    \/ HnFetch
    \/ HnUpdate
    \/ HnPersist
    \/ HnExcept
    \/ HnFinally
    \/ DaemonCatch
    \/ DaemonReturned
    \/ DaemonWake

SpecDaemon == InitDaemon /\ [][NextDaemon]_vars

(* SpecSegmentDaemon: the daemon with the segment path only.                *)

InitSegmentDaemon == InitMain({<< >>}, Daemonized(SegmentArgs))

NextSegmentDaemon ==
    \/ GetDb
    \/ GetDbFails
    \/ HnFetch
    \/ HnUpdate
    \/ HnPersist
    \/ HnExcept
    \/ HnFinally
    \/ DaemonCatch
    \/ DaemonReturned
    \/ DaemonWake

SpecSegmentDaemon == InitSegmentDaemon /\ [][NextSegmentDaemon]_vars

\* the process keeps running: the handler of the loop and its sleep come to an
\* end
SpecSegmentDaemonLive ==
    SpecSegmentDaemon /\ WF_vars(DaemonCatch) /\ WF_vars(DaemonWake)

----------------------------------------------------------------------------
(* Drivers: specifications that call one function of the script directly. *)
(* calls lists the calls made so far and rets what each returned.          *)

InitDriver ==
    /\ fetched = << >>
    /\ seg_lines = << >>
    /\ calls = << >>
    /\ rets = << >>
    /\ pc = "driver"
    /\ args = [skip_check |-> FALSE, overwrite |-> FALSE, health_check |-> TRUE,
               max_per_source |-> MaxPerSource, sleep |-> 1, draft |-> FALSE,
               report |-> TRUE, monitor_webhook |-> ""]
    /\ conn = "closed"
    /\ InitLocals

(* SpecDedup: dedup is applied to an item list, then to its result.        *)

CallDedup ==
    /\ calls = << >>
    /\ \E X \in SeqsUpTo(DriverItems, MaxLen) :
          /\ calls' = <<[op |-> "dedup", its |-> X]>>
          /\ rets' = <<dedup(X)>>
    /\ UNCHANGED <<storeVars, mainVars, segVars>>

CallDedupAgain ==
    /\ Len(calls) = 1
    /\ calls' = Append(calls, [op |-> "dedup", its |-> rets[1]])
    /\ rets' = Append(rets, dedup(rets[1]))
    /\ UNCHANGED <<storeVars, mainVars, segVars>>

NextDedup == CallDedup \/ CallDedupAgain

SpecDedup == InitDriver /\ [][NextDedup]_vars

(* SpecStore: up to MaxCalls calls of has_seen, mark_seen and              *)
(* mark_seen_overwrite on a store that starts empty.                       *)

CallMarkSeen ==
    /\ Len(calls) < MaxCalls
    /\ \E it \in DriverItems, d \in DriverDates :
          /\ fetched' = mark_seen(fetched, it, d)
          /\ calls' = Append(calls, [op |-> "mark_seen", it |-> it, seen_time |-> d])
          /\ rets' = Append(rets, "None")
    /\ UNCHANGED <<mainVars, segVars>>

CallMarkSeenOverwrite ==
    /\ Len(calls) < MaxCalls
    /\ \E it \in DriverItems, d \in DriverDates :
          /\ fetched' = mark_seen_overwrite(fetched, it, d)
          /\ calls' = Append(calls, [op |-> "mark_seen_overwrite", it |-> it, seen_time |-> d])
          /\ rets' = Append(rets, "None")
    /\ UNCHANGED <<mainVars, segVars>>

CallHasSeen ==
    /\ Len(calls) < MaxCalls
    /\ \E it \in DriverItems :
          /\ rets' = Append(rets, has_seen(fetched, it.url))
          /\ calls' = Append(calls, [op |-> "has_seen", it |-> it, seen_time |-> ""])
    /\ UNCHANGED <<fetched, mainVars, segVars>>

NextStore == CallMarkSeen \/ CallMarkSeenOverwrite \/ CallHasSeen

SpecStore == InitDriver /\ [][NextStore]_vars

(* SpecSegment: one call of update_markdown_segment on a document of up to *)
(* MaxDocLines lines, with line numbers inside and outside the document.   *)

DocLines == <<"# Weekly", "- [old](https://old.example/1)", "- (none)", "tail", "end">>

InitSegment ==
    /\ fetched = << >>
    /\ seg_lines \in {SubSeq(DocLines, 1, n) : n \in 0..MaxDocLines}
    /\ calls = << >>
    /\ rets = << >>
    /\ pc = "driver"
    /\ args = [skip_check |-> FALSE, overwrite |-> FALSE, health_check |-> TRUE,
               max_per_source |-> MaxPerSource, sleep |-> 1, draft |-> FALSE,
               report |-> TRUE, monitor_webhook |-> ""]
    /\ conn = "closed"
    /\ InitLocals

CallUpdateSegment ==
    /\ calls = << >>
    /\ \E start_line \in -1..(MaxDocLines + 2), end_line \in -1..(MaxDocLines + 2),
          its \in SeqsUpTo(DriverItems, MaxSegItems) :
          /\ seg_lines' = update_markdown_segment(seg_lines, start_line, end_line, its)
          /\ calls' = <<[op |-> "update_markdown_segment", lines |-> seg_lines,
                         start_line |-> start_line, end_line |-> end_line, its |-> its]>>
          /\ rets' = <<"None">>
    /\ UNCHANGED <<storeVars, mainVars>>

NextSegment == CallUpdateSegment

SpecSegment == InitSegment /\ [][NextSegment]_vars

(* SpecFetch: one call of fetch_with_retries, attempt by attempt.  calls    *)
(* lists the fetches and sleeps it makes, rets what each fetch answered.    *)
(* Times are in milliseconds.                                               *)

\* what fetch(url) may do: return the page text or raise
FetchOutcomes ==
    { [err |-> "", text |-> "<html>weekly</html>"],
      [err |-> "timeout", text |-> ""],
      [err |-> "503 Server Error", text |-> ""] }

\* a backoff that grows by the same step after every attempt
BackoffLinear(backoff, i) == backoff * (i + 1)

\* backoff * (2 ** i)
BackoffSleep(backoff, i) == backoff * 2^i

InitFetch ==
    /\ fetched = << >>
    /\ seg_lines = << >>
    /\ calls = << >>
    /\ rets = << >>
    /\ pc = "driver"
    /\ args = [skip_check |-> FALSE, overwrite |-> FALSE, health_check |-> TRUE,
               max_per_source |-> MaxPerSource, sleep |-> 1, draft |-> FALSE,
               report |-> TRUE, monitor_webhook |-> ""]
    /\ conn = "closed"
    /\ src = 0
    /\ resp = NoResponse
    /\ stats = NewStats
    /\ raw_htmls = << >>
    /\ all_items = << >>
    /\ items = << >>
    /\ md = << >>
    /\ alerts = << >>
    /\ \E retries \in 0..MaxRetries, backoff \in {0, 800, 1500} :
          fw = [retries |-> retries, backoff |-> backoff, i |-> 0, last_err |-> "",
                at |-> "loop", value |-> ""]

\* one pass of for i in range(retries): return fetch(...), or on an exception
\* last_err = e and time.sleep(backoff * (2 ** i))
FetchAttempt ==
    /\ fw.at = "loop"
    /\ fw.i < fw.retries
    /\ \E o \in FetchOutcomes :
          IF o.err = ""
          THEN /\ calls' = Append(calls, [op |-> "fetch", arg |-> fw.i])
               /\ rets' = Append(rets, o)
               /\ fw' = [fw EXCEPT !.at = "returned", !.value = o.text]
          ELSE /\ calls' = calls \o <<[op |-> "fetch", arg |-> fw.i],
                                      [op |-> "sleep", arg |-> BackoffSleep(fw.backoff, fw.i)]>>
               /\ rets' = rets \o <<o, [err |-> "", text |-> "None"]>>
               /\ fw' = [fw EXCEPT !.last_err = o.err, !.i = @ + 1]
    /\ UNCHANGED <<fetched, pc, args, conn, src, resp, stats, raw_htmls, all_items, items,
                   md, alerts, seg_lines>>

\* after the loop: if last_err: raise last_err; return ""
FetchExhausted ==
    /\ fw.at = "loop"
    /\ fw.i >= fw.retries
    /\ fw' = IF fw.last_err # ""
             THEN [fw EXCEPT !.at = "raised", !.value = fw.last_err]
             ELSE [fw EXCEPT !.at = "returned", !.value = ""]
    /\ UNCHANGED <<fetched, pc, args, conn, src, resp, stats, raw_htmls, all_items, items,
                   md, alerts, seg_lines, calls, rets>>

NextFetch == FetchAttempt \/ FetchExhausted

SpecFetch == InitFetch /\ [][NextFetch]_vars

(* SpecClassify: up to MaxClassified calls of classify_item, with the       *)
(* module's SECTION_MAP as shipped or edited.                               *)

\* most calls of classify_item a driver makes
MaxClassified == 2

\* SECTION_MAP with two entries added: a short url prefix in front and a longer
\* one at the end
EditedMap ==
    << <<"https://git", "Trends">> >> \o SECTION_MAP
        \o << <<"https://x.community.io", "Reading">> >>

TableNamed(name) == IF name = "edited" THEN EditedMap ELSE SECTION_MAP

\* items a driver classifies: sources that are keys, urls under a key, an http
\* url, urls and tags no key matches; two urls for each
ClassifyItems ==
    { Item("title", u, source, "") :
        u \in {"https://github.com/a/b", "https://x.com/y"},
        source \in {"github_trending", "https://git.news", "https://git.news/post/1",
                    "http://topsub.cc/feed", "https://x.community.io/feed",
                    "https://news.ycombinator.com", "release_gitee"} }

CallClassify ==
    /\ Len(calls) < MaxClassified
    /\ \E name \in {"shipped", "edited"}, it \in ClassifyItems :
          /\ calls' = Append(calls, [op |-> "classify_item", table |-> name, it |-> it])
          /\ rets' = Append(rets, ClassifyIn(TableNamed(name), it))
    /\ UNCHANGED <<storeVars, mainVars, segVars>>

NextClassify == CallClassify

SpecClassify == InitDriver /\ [][NextClassify]_vars

(* SpecRender: build_markdown is called, the seen-store may change, and     *)
(* build_markdown is called again with the same arguments.                  *)

\* longest item list a driver hands to build_markdown
MaxRenderItems == 3

\* items a driver renders: two of one section, one of another
RenderItems ==
    { [title |-> "apache/kafka", url |-> "https://github.com/apache/kafka",
       source |-> "github_trending", summary |-> "Streaming platform"],
      [title |-> "Git [news]", url |-> "https://git.news/post/1",
       source |-> "https://git.news", summary |-> ""],
      [title |-> "RSS digest", url |-> "https://morerss.com/zh/digest",
       source |-> "https://morerss.com", summary |-> ""] }

CallBuildMarkdown ==
    /\ calls = << >>
    /\ \E its \in SeqsUpTo(RenderItems, MaxRenderItems), date_str \in DriverDates,
          draft \in BOOLEAN :
          /\ calls' = <<[op |-> "build_markdown", its |-> its,
                         title |-> "Weekly " \o iso_week_slug(date_str),
                         date_str |-> date_str, draft |-> draft]>>
          /\ rets' = <<build_markdown(its, "Weekly " \o iso_week_slug(date_str),
                                      date_str, draft)>>
    /\ UNCHANGED <<storeVars, mainVars, segVars>>

\* between the two calls one of the rendered items is recorded as seen
MarkSeenBetween ==
    /\ Len(calls) = 1
    /\ fetched = << >>
    /\ \E i \in 1..Len(calls[1].its) :
          fetched' = mark_seen(fetched, calls[1].its[i], calls[1].date_str)
    /\ UNCHANGED <<mainVars, segVars, calls, rets>>

CallBuildMarkdownAgain ==
    /\ Len(calls) = 1
    /\ calls' = Append(calls, calls[1])
    /\ rets' = Append(rets, build_markdown(calls[1].its, calls[1].title,
                                           calls[1].date_str, calls[1].draft))
    /\ UNCHANGED <<storeVars, mainVars, segVars>>

NextRender == CallBuildMarkdown \/ MarkSeenBetween \/ CallBuildMarkdownAgain

SpecRender == InitDriver /\ [][NextRender]_vars

(* SpecNorm: norm_space is applied to a text, then to its result.           *)

\* longest text a driver hands to norm_space
MaxText == 5

RECURSIVE TextsUpTo(_)
\* the texts of at most n characters over a letter and the whitespace characters
TextsUpTo(n) ==
    IF n = 0 THEN {""}
    ELSE LET shorter == TextsUpTo(n - 1)
         IN  shorter \cup {t \o c : t \in {x \in shorter : Len(x) = n - 1},
                                    c \in {"a"} \cup Whitespace}

CallNormSpace ==
    /\ calls = << >>
    /\ \E s \in TextsUpTo(MaxText) :
          /\ calls' = <<[op |-> "norm_space", s |-> s]>>
          /\ rets' = <<norm_space(s)>>
    /\ UNCHANGED <<storeVars, mainVars, segVars>>

CallNormSpaceAgain ==
    /\ Len(calls) = 1
    /\ calls' = Append(calls, [op |-> "norm_space", s |-> rets[1]])
    /\ rets' = Append(rets, norm_space(rets[1]))
    /\ UNCHANGED <<storeVars, mainVars, segVars>>

NextNorm == CallNormSpace \/ CallNormSpaceAgain

SpecNorm == InitDriver /\ [][NextNorm]_vars

(* SpecHealth: health_check is called on endpoints that answer with pages  *)
(* of several lengths or fail.                                             *)

\* what the endpoints answer to the health check's fetch
HealthProbes ==
    { Page(n, <<>>) : n \in {0, 1, 255, 256, 257, 300} }
        \cup { Raised(e) : e \in {"timeout", "404 Client Error"} }

CallHealthCheck ==
    /\ Len(calls) < MaxCalls
    /\ \E probe \in HealthProbes :
          /\ calls' = Append(calls, [op |-> "health_check", probe |-> probe])
          /\ rets' = Append(rets, health_check(probe))
    /\ UNCHANGED <<storeVars, mainVars, segVars>>

NextHealth == CallHealthCheck

SpecHealth == InitDriver /\ [][NextHealth]_vars


(* SpecEnrich: one call of enrich_items, with and without deep scan, the   *)
(* scan of each item answered by an error, an unparseable page or a page.  *)

\* longest item list a driver hands to enrich_items
MaxEnrich == 2

ScanAnswers ==
    { ScanRaised("timeout"), ScanGarbled,
      ScanPage(" Kafka  4.0 ", "ignored", "Jun Rao", "2024-01-05", "Release notes"),
      ScanPage("", "Page title", "", "", "") }

CallEnrichItems ==
    /\ calls = << >>
    /\ \E its \in SeqsUpTo(DriverItems, MaxEnrich), deep_scan \in BOOLEAN :
          \E answers \in [1..Len(its) -> ScanAnswers] :
             /\ calls' = <<[op |-> "enrich_items", its |-> its, deep_scan |-> deep_scan,
                            answers |-> answers]>>
             /\ rets' = <<EnrichWith(its, deep_scan, answers)>>
    /\ UNCHANGED <<storeVars, mainVars, segVars>>

NextEnrich == CallEnrichItems

SpecEnrich == InitDriver /\ [][NextEnrich]_vars


(* SpecRun: run() alone, also with a negative --sleep, which argparse        *)
(* accepts and time.sleep rejects.                                          *)

RunArgChoices ==
    [skip_check : BOOLEAN, overwrite : {FALSE}, health_check : BOOLEAN,
     max_per_source : {MaxPerSource}, sleep : {1, -1}, draft : {FALSE},
     report : {TRUE}, monitor_webhook : {""},
     daemon : {FALSE}, hn_only : {FALSE}, segment_file : {""},
     segment_start : {0}, segment_end : {0}]

InitRun ==
    /\ fetched \in PriorStores
    /\ seg_lines = WeeklyLines
    /\ calls = << >>
    /\ rets = << >>
    /\ pc = "one_round"
    /\ args \in RunArgChoices
    /\ conn = "closed"
    /\ InitLocals

NextRun == GetDb \/ RunSource \/ RunReturn

SpecRun == InitRun /\ [][NextRun]_vars


----------------------------------------------------------------------------
(* The claims.                                                             *)

Range(f) == {f[i] : i \in DOMAIN f}

\* the normalized urls of an item list
NormUrls(its) == {norm_space(its[i].url) : i \in 1..Len(its)}

\* no two items of the list have the same normalized url
DistinctUrls(its) ==
    \A i, j \in 1..Len(its) : i # j => norm_space(its[i].url) # norm_space(its[j].url)

KafkaUrl == "https://github.com/apache/kafka"

(* C1: with skip_check = false, when run() has returned (the store is still *)
(* the store the run started with), no returned item has a normalized url   *)
(* recorded in the store, and no two returned items have the same           *)
(* normalized url, urls that differ in whitespace only being the same url.  *)
C1_RunReturnsUnseenDistinct ==
    (pc = "releases" /\ ~args.skip_check) =>
        /\ \A i \in 1..Len(items) : norm_space(items[i].url) \notin DOMAIN fetched
        /\ DistinctUrls(items)

\* run() has returned with skip_check = false on a store that knows the Kafka
\* repository: the trending page listed it, once with a trailing space in the
\* href, none of the two was returned, and another item was
C1_Witness ==
    /\ pc = "releases"
    /\ ~args.skip_check
    /\ KafkaUrl \in DOMAIN fetched
    /\ SOURCES[1].url \in DOMAIN raw_htmls
    /\ \E i \in 1..Len(raw_htmls[SOURCES[1].url].anchors) :
          /\ raw_htmls[SOURCES[1].url].anchors[i].href # KafkaUrl
          /\ norm_space(raw_htmls[SOURCES[1].url].anchors[i].href) = KafkaUrl
    /\ stats.sources[1].ok
    /\ items # <<>>

\* the message the handler of run() records for what the world answered
FailureOf(r) ==
    IF r.probe.err # "" /\ r.probe # NotAsked THEN "error: " \o r.probe.err
    ELSE IF r.probe # NotAsked /\ r.probe.html.length <= 256 THEN "html_too_short"
    ELSE IF r.fetch.err # "" THEN r.fetch.err
    ELSE IF r.fetch.html.bad THEN "unparseable"
    ELSE IF r.db_error THEN "database is locked"
    ELSE ""

(* C2: in run(), a source whose health check, fetch, extraction or seen     *)
(* filter raised has its record finished as failed with the error message,  *)
(* and the loop goes on: the sources handled so far have their finished     *)
(* records in the configured order, and no exception leaves run().          *)
C2_SourceFailureIsolated ==
    /\ ~(pc = "crashed" /\ src <= Len(SOURCES))
    /\ pc \in {"run", "releases", "enrich", "write", "persist", "report", "exit"} =>
          /\ Len(stats.sources) = src - 1
          /\ \A i \in 1..(src - 1) :
                /\ stats.sources[i].url = SOURCES[i].url
                /\ stats.sources[i].duration = "elapsed"
          /\ (src > 1 /\ FailureOf(resp) # "") =>
                /\ ~stats.sources[src - 1].ok
                /\ stats.sources[src - 1].count = 0
                /\ stats.sources[src - 1].error = FailureOf(resp)

\* run() has returned: the seen filter raised for the first source, whose record
\* is failed, and the second source was handled after it and gave items
C2_Witness ==
    /\ pc = "releases"
    /\ Len(stats.sources) = Len(SOURCES)
    /\ ~stats.sources[1].ok
    /\ stats.sources[1].error = "database is locked"
    /\ stats.sources[2].ok
    /\ stats.sources[2].count > 0
    /\ stats.failures = 1

\* the calls that write the row of key k, in call order
WritesOf(k) ==
    SelectSeq(calls, LAMBDA c : /\ c.op \in {"mark_seen", "mark_seen_overwrite"}
                                /\ norm_space(c.it.url) = k)

ObservedOnly(k) == \A i \in 1..Len(WritesOf(k)) : WritesOf(k)[i].op = "mark_seen"

(* C3: a url that was only observed (mark_seen), n times, has times_seen    *)
(* = n, 2 after two observations, and the title, source and first_seen of   *)
(* its first observation, whatever the later calls carried.                 *)
C3_ObserveKeepsFirst ==
    \A k \in DOMAIN fetched :
        ObservedOnly(k) =>
            fetched[k] = [title |-> norm_space(WritesOf(k)[1].it.title),
                          source |-> norm_space(WritesOf(k)[1].it.source),
                          first_seen |-> WritesOf(k)[1].seen_time,
                          times_seen |-> Len(WritesOf(k))]

\* two observations of one url, the second with another raw url, title, source
\* and date
C3_Witness ==
    /\ Len(calls) = 2
    /\ calls[1].op = "mark_seen" /\ calls[2].op = "mark_seen"
    /\ norm_space(calls[1].it.url) = norm_space(calls[2].it.url)
    /\ calls[1].it.url # calls[2].it.url
    /\ norm_space(calls[1].it.title) # norm_space(calls[2].it.title)
    /\ norm_space(calls[1].it.source) # norm_space(calls[2].it.source)
    /\ calls[1].seen_time # calls[2].seen_time
    /\ fetched[norm_space(calls[1].it.url)].times_seen = 2

(* C4: a url whose last write is mark_seen_overwrite has the title, source  *)
(* and first_seen of that call and times_seen = 1, whether the call found a *)
(* row (with any times_seen) or inserted one.                               *)
C4_OverwriteResets ==
    \A k \in DOMAIN fetched :
        LET n == Len(WritesOf(k))
        IN  (n > 0 /\ WritesOf(k)[n].op = "mark_seen_overwrite") =>
                fetched[k] = [title |-> norm_space(WritesOf(k)[n].it.title),
                              source |-> norm_space(WritesOf(k)[n].it.source),
                              first_seen |-> WritesOf(k)[n].seen_time,
                              times_seen |-> 1]

\* a url observed twice, then overwritten with another title and date
C4_Witness ==
    /\ Len(calls) = 3
    /\ calls[1].op = "mark_seen" /\ calls[2].op = "mark_seen"
    /\ calls[3].op = "mark_seen_overwrite"
    /\ norm_space(calls[1].it.url) = norm_space(calls[3].it.url)
    /\ norm_space(calls[2].it.url) = norm_space(calls[3].it.url)
    /\ norm_space(calls[1].it.title) # norm_space(calls[3].it.title)
    /\ calls[1].seen_time # calls[3].seen_time
    /\ fetched[norm_space(calls[3].it.url)].times_seen = 1

(* C5: dedup is idempotent: applied to its own result it returns that       *)
(* result.                                                                  *)
C5_DedupIdempotent ==
    Len(rets) = 2 => rets[2] = rets[1]

\* dedup was applied twice, the first time to three items of which it dropped one
C5_Witness ==
    /\ Len(rets) = 2
    /\ Len(calls[1].its) = 3
    /\ Len(rets[1]) = 2

\* the indices of the first occurrence of each normalized url in a list
FirstOccurrences(X) ==
    {i \in 1..Len(X) : \A j \in 1..(i - 1) : norm_space(X[j].url) # norm_space(X[i].url)}

\* the k-th smallest element of a finite set of numbers
RECURSIVE KthSmallest(_, _)
KthSmallest(S, k) ==
    LET m == CHOOSE x \in S : \A y \in S : x <= y
    IN  IF k = 1 THEN m ELSE KthSmallest(S \ {m}, k - 1)

(* C6: dedup(X) is X restricted to the first occurrence of each normalized  *)
(* url, in the order of X: no two items of the result share a normalized    *)
(* url and every normalized url of X is in the result.                      *)
C6_DedupFirstOccurrences ==
    Len(calls) >= 1 =>
        /\ DistinctUrls(rets[1])
        /\ NormUrls(rets[1]) = NormUrls(calls[1].its)
        /\ Len(rets[1]) = Cardinality(FirstOccurrences(calls[1].its))
        /\ \A k \in 1..Len(rets[1]) :
              rets[1][k] = calls[1].its[KthSmallest(FirstOccurrences(calls[1].its), k)]

\* three items, the second a later occurrence of the first one's url written
\* with other whitespace: the first and the third are kept
C6_Witness ==
    /\ Len(calls) = 1
    /\ Len(calls[1].its) = 3
    /\ calls[1].its[1].url # calls[1].its[2].url
    /\ norm_space(calls[1].its[1].url) = norm_space(calls[1].its[2].url)
    /\ rets[1] = <<calls[1].its[1], calls[1].its[3]>>

(* C7: the items a main-pipeline run renders and persists, the source items *)
(* with the release items merged in, contain no two items of the same       *)
(* normalized url.                                                          *)
C7_RenderedItemsDistinct ==
    pc \in {"write", "persist"} => DistinctUrls(items)

(* C8: every url the persistence step of a run inserts or updates in the    *)
(* store is the url of a bullet of the document that run wrote.             *)
C8_PersistedWereRendered ==
    [][(pc = "persist" /\ pc' = "report") =>
          \A k \in DOMAIN fetched' :
              (k \notin DOMAIN fetched \/ fetched'[k] # fetched[k]) =>
                  \E i \in 1..Len(items) :
                      /\ norm_space(items[i].url) = k
                      /\ format_item_line(items[i]) \in Range(md)]_vars

(* C9: the store never holds a row whose url is empty.                      *)
C9_NoEmptyUrlRow ==
    "" \notin DOMAIN fetched

\* a call of update_markdown_segment whose range is outside the document
OutOfRange(c) ==
    c.start_line < 1 \/ c.start_line > Len(c.lines) \/ c.end_line > Len(c.lines)

(* C10: update_markdown_segment with a line range outside the document is   *)
(* rejected with an error and leaves the document as it was.                *)
C10_OutOfRangeRejected ==
    (calls # <<>> /\ OutOfRange(calls[1])) =>
        /\ rets[1] # "None"
        /\ seg_lines = calls[1].lines

(* C11: update_markdown_segment with 1 <= start_line <= end_line <= number *)
(* of lines keeps the number of lines and the lines outside the range, and  *)
(* line start_line + i - 1 becomes the rendered line of the i-th item while *)
(* there is one, the placeholder line otherwise; items beyond the range are *)
(* not written.                                                             *)
C11_InRangeReplaced ==
    (/\ calls # <<>>
     /\ 1 <= calls[1].start_line
     /\ calls[1].start_line <= calls[1].end_line
     /\ calls[1].end_line <= Len(calls[1].lines)) =>
        /\ Len(seg_lines) = Len(calls[1].lines)
        /\ \A i \in 1..Len(seg_lines) :
              seg_lines[i] =
                  IF i < calls[1].start_line \/ i > calls[1].end_line
                  THEN calls[1].lines[i]
                  ELSE IF i - calls[1].start_line + 1 <= Len(calls[1].its)
                  THEN format_item_line(calls[1].its[i - calls[1].start_line + 1])
                  ELSE "- (none)"

\* lines 2..3 of a three-line document replaced with one item: its bullet, then
\* the placeholder, the first line kept
C11_Witness ==
    /\ calls # <<>>
    /\ Len(calls[1].lines) = 3
    /\ calls[1].start_line = 2 /\ calls[1].end_line = 3
    /\ Len(calls[1].its) = 1
    /\ seg_lines = <<calls[1].lines[1], format_item_line(calls[1].its[1]), "- (none)">>
    /\ seg_lines[2] # calls[1].lines[2]

\* the sources whose record is failed, and those failed by the health check
FailedSources == {i \in 1..Len(stats.sources) : ~stats.sources[i].ok}
HealthFailed ==
    {i \in 1..Len(stats.sources) :
        stats.sources[i].error \in {"html_too_short", "error: timeout"}}

\* the alerts of type source_failures that were sent
SourceFailureAlerts == SelectSeq(alerts, LAMBDA p : p.type = "source_failures")

(* C12: when the failed sources of a run are the F sources that failed      *)
(* their health check, stats.failures = F, and a run that completed with a  *)
(* webhook configured and F >= max(1, N // 3) has sent exactly one alert of *)
(* type source_failures, with count = F.                                    *)
C12_HealthFailuresCountedAndAlerted ==
    (pc \notin {"one_round", "driver"} /\ FailedSources = HealthFailed) =>
        /\ stats.failures = Cardinality(HealthFailed)
        /\ (/\ pc = "exit"
            /\ args.monitor_webhook # ""
            /\ Cardinality(HealthFailed) >= 1
            /\ Cardinality(HealthFailed) >= Len(SOURCES) \div 3) =>
               /\ Len(SourceFailureAlerts) = 1
               /\ SourceFailureAlerts[1].count = Cardinality(HealthFailed)
               /\ SourceFailureAlerts[1].total_sources = Len(SOURCES)

\* a completed run in which two of the three sources failed their health check,
\* one by a short page and one by an error, and the third gave items: after a
\* report_error alert, one source_failures alert with count 2
C12_Witness ==
    /\ pc = "exit"
    /\ FailedSources = HealthFailed
    /\ Cardinality(HealthFailed) = 2
    /\ \E i, j \in HealthFailed : stats.sources[i].error # stats.sources[j].error
    /\ items # <<>>
    /\ Len(alerts) = 2
    /\ alerts[1].type = "report_error"
    /\ alerts[2] = [type |-> "source_failures", count |-> 2, total_sources |-> 3]

(* C13 (as the code has it): a completed run has sent a source_failures     *)
(* alert exactly when a webhook is configured and the number of failed      *)
(* sources is at least max(1, N // 3), the third rounded down: a count      *)
(* equal to N // 3 alerts although it does not exceed one third.            *)
C13_AlertAtFlooredThird ==
    pc = "exit" =>
        (SourceFailureAlerts # <<>>) =
            (/\ args.monitor_webhook # ""
             /\ stats.failures >= (IF Len(SOURCES) \div 3 > 1 THEN Len(SOURCES) \div 3 ELSE 1))

\* a completed run with one failed source of three, which is not more than a
\* third, and the alert it sent
C13_Witness ==
    /\ pc = "exit"
    /\ stats.failures = 1
    /\ 3 * stats.failures <= Len(SOURCES)
    /\ Len(SourceFailureAlerts) = 1
    /\ SourceFailureAlerts[1].count = 1

(* C13 (as the spec has it): with a webhook configured, a completed run has *)
(* sent a source_failures alert if and only if the number of failed sources *)
(* exceeds one third of the number of configured sources.                   *)
C13_AlertIffExceedsThird ==
    (pc = "exit" /\ args.monitor_webhook # "") =>
        (SourceFailureAlerts # <<>>) = (3 * stats.failures > Len(SOURCES))

\* the positions in calls of the fetch attempts made so far
FetchCalls == {k \in 1..Len(calls) : calls[k].op = "fetch"}

(* C14: fetch_with_retries with retries >= 1 makes at most retries fetch    *)
(* attempts; a successful attempt is the last thing it does and its text is *)
(* what is returned; failed attempt i (0-based) is followed by a sleep of   *)
(* backoff * 2^i; and an error is raised only after retries failed          *)
(* attempts, and is the error of the last one.                              *)
C14_RetriesBackoffReraise ==
    fw.retries >= 1 =>
        /\ Cardinality(FetchCalls) <= fw.retries
        /\ \A k \in FetchCalls :
              /\ calls[k].arg = Cardinality({j \in FetchCalls : j < k})
              /\ IF rets[k].err = ""
                 THEN /\ k = Len(calls)
                      /\ fw.at = "returned"
                      /\ fw.value = rets[k].text
                 ELSE /\ k < Len(calls)
                      /\ calls[k + 1].op = "sleep"
                      /\ calls[k + 1].arg = fw.backoff * 2^(calls[k].arg)
        /\ fw.at = "returned" => \E k \in FetchCalls : rets[k].err = ""
        /\ fw.at = "raised" =>
              /\ Cardinality(FetchCalls) = fw.retries
              /\ \A k \in FetchCalls : rets[k].err # ""
              /\ \E k \in FetchCalls :
                    /\ \A j \in FetchCalls : j <= k
                    /\ fw.value = rets[k].err

\* three attempts with backoff 800 that failed with two different errors: the
\* sleeps were 800, 1600 and 3200 and the last error was raised
C14_Witness ==
    /\ fw.at = "raised"
    /\ fw.retries = 3
    /\ fw.backoff = 800
    /\ Len(calls) = 6
    /\ <<calls[2].arg, calls[4].arg, calls[6].arg>> = <<800, 1600, 3200>>
    /\ rets[1].err = "timeout"
    /\ rets[5].err = "503 Server Error"
    /\ fw.value = "503 Server Error"

\* the section a lookup table gives a key
SectionOf(table, key) ==
    LET i == CHOOSE j \in 1..Len(table) : table[j][1] = key IN table[i][2]

(* C15: whenever item.source is a key of the lookup table, classify_item    *)
(* returns that key's section, whatever other keys are prefixes of the      *)
(* source; and for one table, two items of the same source get the same     *)
(* section.                                                                 *)
C15_ExactKeyWins ==
    /\ \A k \in 1..Len(calls) :
          calls[k].it.source \in Keys(TableNamed(calls[k].table)) =>
              rets[k] = SectionOf(TableNamed(calls[k].table), calls[k].it.source)
    /\ \A j, k \in 1..Len(calls) :
          (calls[j].table = calls[k].table /\ calls[j].it.source = calls[k].it.source) =>
              rets[j] = rets[k]

\* with the edited table, whose first key "https://git" is a prefix of the key
\* "https://git.news": two items of source "https://git.news" and different
\* urls are both put in that key's section
C15_Witness ==
    /\ Len(calls) = 2
    /\ calls[1].table = "edited" /\ calls[2].table = "edited"
    /\ calls[1].it.source = "https://git.news" /\ calls[2].it.source = "https://git.news"
    /\ calls[1].it.url # calls[2].it.url
    /\ EditedMap[1][1] = "https://git" /\ EditedMap[1][2] # "OpenSource"
    /\ rets = <<"OpenSource", "OpenSource">>

\* scheme + host of a source that is a url, the source itself otherwise
SchemeHost(source) ==
    IF FindSchemeSep(source, 1) = 0 THEN source
    ELSE UrlScheme(source) \o "://" \o UrlNetloc(source)

\* the longest key of the table that is a prefix of s (there is one)
LongestPrefixKey(table, s) ==
    CHOOSE k \in Keys(table) :
        /\ StartsWith(s, k)
        /\ \A k2 \in Keys(table) : StartsWith(s, k2) => Len(k2) <= Len(k)

(* C16: when item.source is not a key of the lookup table, classify_item    *)
(* returns the section of the longest key that is a prefix of the item's    *)
(* origin, scheme + host, and the default section when no key is a prefix   *)
(* of it.                                                                   *)
C16_LongestPrefixOfOrigin ==
    \A k \in 1..Len(calls) :
        calls[k].it.source \notin Keys(TableNamed(calls[k].table)) =>
            rets[k] =
                IF \E key \in Keys(TableNamed(calls[k].table)) :
                       StartsWith(SchemeHost(calls[k].it.source), key)
                THEN SectionOf(TableNamed(calls[k].table),
                               LongestPrefixKey(TableNamed(calls[k].table),
                                                SchemeHost(calls[k].it.source)))
                ELSE "Reading"

HeadingLines(doc) == {i \in 1..Len(doc) : StartsWith(doc[i], "## ")}

\* the lines from the k-th heading of a document to the line before the next
\* heading, or to the end
SectionBlock(doc, k) ==
    LET from == KthSmallest(HeadingLines(doc), k)
        to == IF k < Cardinality(HeadingLines(doc))
              THEN KthSmallest(HeadingLines(doc), k + 1) - 1
              ELSE Len(doc)
    IN  SubSeq(doc, from, to)

\* the bullets a section is to hold: the items classified into it, in input
\* order, up to the cap
BulletsOf(its, sec) ==
    LET mine == SelectSeq(its, LAMBDA it : classify_item(it) = sec)
        kept == IF Len(mine) > SectionCap THEN SubSeq(mine, 1, SectionCap) ELSE mine
    IN  [i \in 1..Len(kept) |-> format_item_line(kept[i])]

(* C18: the document build_markdown returns has exactly four headings, the  *)
(* four fixed sections in the fixed order; under each heading come the      *)
(* bullets of the items classified into the section, in input order and at  *)
(* most the per-section limit of them, or the one placeholder line if there *)
(* is none, and then a blank line.                                          *)
C18_FourSectionsInOrder ==
    Len(rets) >= 1 =>
        /\ Cardinality(HeadingLines(rets[1])) = 4
        /\ \A k \in 1..4 :
              SectionBlock(rets[1], k) =
                  <<"## " \o <<"Trends", "OpenSource", "Releases", "Reading">>[k]>>
                  \o (IF BulletsOf(calls[1].its,
                                   <<"Trends", "OpenSource", "Releases", "Reading">>[k]) = <<>>
                      THEN <<"- (none)">>
                      ELSE BulletsOf(calls[1].its,
                                     <<"Trends", "OpenSource", "Releases", "Reading">>[k]))
                  \o <<"">>

\* three items of one section and the limit of two: that section has the
\* bullets of the first two, in input order, the other three sections the
\* placeholder
C18_Witness ==
    /\ Len(rets) = 1
    /\ Len(calls[1].its) = 3
    /\ \A i \in 1..3 : classify_item(calls[1].its[i]) = "OpenSource"
    /\ calls[1].its[1] # calls[1].its[2]
    /\ SectionBlock(rets[1], 2) =
           <<"## OpenSource", format_item_line(calls[1].its[1]),
             format_item_line(calls[1].its[2]), "">>
    /\ SectionBlock(rets[1], 1) = <<"## Trends", "- (none)", "">>
    /\ SectionBlock(rets[1], 4) = <<"## Reading", "- (none)", "">>

\* the character of a text at a position is whitespace
SpaceAt(t, i) == SubSeq(t, i, i) \in {" ", "\t", "\n"}

(* C19: norm_space applied to its own result returns that result, and the   *)
(* result neither starts nor ends with whitespace nor has two whitespace    *)
(* characters in a row.                                                     *)
C19_NormSpaceStable ==
    /\ Len(rets) >= 1 =>
          /\ rets[1] # "" => (~SpaceAt(rets[1], 1) /\ ~SpaceAt(rets[1], Len(rets[1])))
          /\ \A i \in 1..(Len(rets[1]) - 1) : ~(SpaceAt(rets[1], i) /\ SpaceAt(rets[1], i + 1))
    /\ Len(rets) = 2 => rets[2] = rets[1]

\* a text with leading whitespace and a run of two different whitespace
\* characters between letters, normalized twice
C19_Witness ==
    /\ Len(rets) = 2
    /\ Len(calls[1].s) = 5
    /\ SpaceAt(calls[1].s, 1)
    /\ SpaceAt(calls[1].s, 3) /\ SpaceAt(calls[1].s, 4)
    /\ SubSeq(calls[1].s, 3, 3) # SubSeq(calls[1].s, 4, 4)
    /\ rets[1] = "a a"

(* C20: no call deletes from the seen-store: a url has_seen knows before a  *)
(* call of mark_seen, mark_seen_overwrite or has_seen is known after it,    *)
(* and so is every key of the table.                                        *)
C20_NoDeletion ==
    [][/\ \A k \in DOMAIN fetched : k \in DOMAIN fetched'
       /\ \A it \in DriverItems :
             has_seen(fetched, it.url) => has_seen(fetched', it.url)]_vars

\* a url is recorded, another url is overwritten, and has_seen still answers
\* true for the first
C20_Witness ==
    /\ Len(calls) = 3
    /\ calls[1].op = "mark_seen"
    /\ calls[2].op = "mark_seen_overwrite"
    /\ norm_space(calls[2].it.url) # norm_space(calls[1].it.url)
    /\ calls[3].op = "has_seen"
    /\ calls[3].it.url = calls[1].it.url
    /\ rets[3] = TRUE

----------------------------------------------------------------------------
(* C30: update_markdown_segment changes nothing outside the addressed      *)
(* range: for 1 <= start_line <= end_line <= number of lines every line    *)
(* before start_line and after end_line is unchanged and the number of     *)
(* lines is preserved; the number of lines is also preserved when          *)
(* start_line > end_line.                                                  *)
C30_FrameOfSegment ==
    calls # <<>> =>
        /\ (/\ 1 <= calls[1].start_line
            /\ calls[1].start_line <= calls[1].end_line
            /\ calls[1].end_line <= Len(calls[1].lines)) =>
              /\ Len(seg_lines) = Len(calls[1].lines)
              /\ \A i \in 1..Len(seg_lines) :
                    (i < calls[1].start_line \/ i > calls[1].end_line) =>
                        seg_lines[i] = calls[1].lines[i]
        /\ calls[1].start_line > calls[1].end_line =>
              Len(seg_lines) = Len(calls[1].lines)


----------------------------------------------------------------------------
(* C24: health_check reports an endpoint healthy exactly when the fetch     *)
(* succeeds and the content is longer than 256; content of length <= 256   *)
(* gives (false, "html_too_short") and a fetch error gives                  *)
(* (false, "error: <detail>"); the call returns in every case.              *)
C24_HealthyIffLongerThan256 ==
    /\ Len(rets) = Len(calls)
    /\ \A i \in 1..Len(calls) :
          LET p == calls[i].probe
              fetched_ok == p.err = ""
          IN  /\ rets[i][1] <=> (fetched_ok /\ p.html.length > 256)
              /\ (fetched_ok /\ p.html.length <= 256) =>
                    rets[i] = <<FALSE, "html_too_short">>
              /\ ~fetched_ok =>
                    /\ rets[i][1] = FALSE
                    /\ StartsWith(rets[i][2], "error: ")
                    /\ SubSeq(rets[i][2], 8, Len(rets[i][2])) = p.err

\* a page of 257 characters was found healthy, one of 256 too short, and a
\* timeout was reported as an error
C24_Witness ==
    /\ Len(calls) = 3
    /\ calls[1].probe = Page(257, <<>>) /\ rets[1] = <<TRUE, "ok">>
    /\ calls[2].probe = Page(256, <<>>) /\ rets[2] = <<FALSE, "html_too_short">>
    /\ calls[3].probe = Raised("timeout") /\ rets[3] = <<FALSE, "error: timeout">>

----------------------------------------------------------------------------
\* the scan of item i of the call c raised, in its fetch or in its parse
ScanFailed(c, i) == c.deep_scan /\ (c.answers[i].err # "" \/ c.answers[i].bad)

(* C21: enrich_items does not fail because of one item: an item whose deep  *)
(* scan raises in the fetch or the parse is output with its title from      *)
(* before the enrichment and an empty author and published_at, and the      *)
(* output has the length, the urls, the sources and the order of the input. *)
C21_EnrichKeepsEveryItem ==
    calls # <<>> =>
        /\ Len(rets[1]) = Len(calls[1].its)
        /\ \A i \in 1..Len(calls[1].its) :
              /\ rets[1][i].url = calls[1].its[i].url
              /\ rets[1][i].source = calls[1].its[i].source
              /\ ScanFailed(calls[1], i) =>
                    /\ rets[1][i].title = calls[1].its[i].title
                    /\ rets[1][i].author = ""
                    /\ rets[1][i].published_at = ""

\* two items are scanned: the first scan times out and the item keeps its
\* title, the second finds a title and an author
C21_Witness ==
    /\ calls # <<>>
    /\ calls[1].deep_scan
    /\ Len(calls[1].its) = 2
    /\ calls[1].answers[1] = ScanRaised("timeout")
    /\ rets[1][1].title = calls[1].its[1].title /\ rets[1][1].author = ""
    /\ rets[1][2].title = "Kafka 4.0" /\ rets[1][2].author = "Jun Rao"

----------------------------------------------------------------------------
\* the step is a pass of run()'s loop whose health check failed
HealthSkipStep ==
    /\ pc = "run" /\ src <= Len(SOURCES) /\ src' = src + 1
    /\ args.health_check
    /\ ~health_check(resp'.probe)[1]

(* C26: in run() with health checks enabled a source whose health check     *)
(* fails is skipped: the probe is the one fetch spent on it and             *)
(* fetch_with_retries is not called, its record is finished with ok=false,  *)
(* count 0 and the health check's reason as error, one failure is counted,  *)
(* and it adds no items and no raw page.                                    *)
C26_HealthFailureSkipsSource ==
    [][HealthSkipStep =>
        /\ resp'.probe # NotAsked
        /\ resp'.fetch = NotAsked
        /\ Len(stats'.sources) = src
        /\ stats'.sources[src].url = SOURCES[src].url
        /\ stats'.sources[src].ok = FALSE
        /\ stats'.sources[src].count = 0
        /\ stats'.sources[src].error = health_check(resp'.probe)[2]
        /\ stats'.failures = stats.failures + 1
        /\ all_items' = all_items
        /\ raw_htmls' = raw_htmls]_vars

\* the first source gave a page and items, the second answered the probe with a
\* short page: it is recorded as failed with html_too_short and has no raw page
C26_Witness ==
    /\ pc = "run" /\ src = 3
    /\ args.health_check
    /\ resp.probe = Page(256, <<>>) /\ resp.fetch = NotAsked
    /\ stats.sources[1].ok /\ all_items # <<>>
    /\ stats.sources[2] = [url |-> SOURCES[2].url, ok |-> FALSE, count |-> 0,
                           error |-> "html_too_short", duration |-> "elapsed"]
    /\ DOMAIN raw_htmls = {SOURCES[1].url}

----------------------------------------------------------------------------
(* C27: in one main-pipeline run in observe mode each content key is        *)
(* observed at most once: the times_seen of a key grows by at most 1 in the *)
(* run, and a key that was unseen before the run has times_seen = 1 after.  *)
C27_ObservedOncePerRun ==
    [][(pc = "persist" /\ pc' = "report" /\ ~args.overwrite) =>
          \A k \in DOMAIN fetched' :
              IF k \in DOMAIN fetched
              THEN fetched'[k].times_seen <= fetched[k].times_seen + 1
              ELSE fetched'[k].times_seen = 1]_vars

----------------------------------------------------------------------------
(* C28: every item run() returns comes from a source whose final record has *)
(* ok=true: a pass of the loop that leaves its source's record with         *)
(* ok=false has added no item to the accumulated list, and stats.failures   *)
(* is the number of records with ok=false.                                  *)
C28_ItemsOnlyFromOkSources ==
    [][(pc = "run" /\ src <= Len(SOURCES) /\ src' = src + 1) =>
          /\ ~stats'.sources[src].ok => all_items' = all_items
          /\ stats'.failures =
                Cardinality({i \in 1..Len(stats'.sources) : ~stats'.sources[i].ok})]_vars

----------------------------------------------------------------------------
(* C22: in daemon mode a cycle that raises does not end the process: the    *)
(* exception is caught and logged, the loop sleeps for the interval and     *)
(* calls one_round again, also after several failed cycles in a row.        *)
C22_DaemonSurvivesFailedCycle ==
    /\ [][/\ (pc = "crashed" /\ args.daemon) =>
                (pc' = "sleep" /\ rets' = Append(rets, "raised"))
          /\ pc = "sleep" => pc' = "one_round"
          /\ args.daemon => pc' # "aborted"]_vars
    /\ (pc = "crashed" /\ args.daemon) ~> (pc = "one_round")

\* two cycles in a row have raised, and the loop is calling one_round again
C22_Witness ==
    /\ args.daemon
    /\ rets = <<"raised", "raised">>
    /\ pc = "one_round"

----------------------------------------------------------------------------
(* C23: each run opens the seen-store connection once and has closed it     *)
(* when the run ends, on every path, also when the run ends with an         *)
(* exception; in daemon mode no connection of an earlier cycle is open when *)
(* the next cycle starts.                                                   *)
C23_ConnClosedWhenRunEnds ==
    /\ pc \in {"exit", "crashed", "sleep", "one_round"} => conn = "closed"
    /\ \A i \in 1..Len(calls) : calls[i].conn = "closed"

----------------------------------------------------------------------------
\* the candidates of the segment path's current cycle, and those of them the
\* store does not know
HnCandidates == parse_hn_front(resp.front.rows)
HnUnseen == SelectSeq(HnCandidates, LAMBDA it : ~has_seen(fetched, it.url))
\* the candidates the segment is filled from
HnChosen == IF HnUnseen = <<>> THEN HnCandidates ELSE HnUnseen

(* C25: in the segment path with skip_check=false, when every candidate has *)
(* been seen the unfiltered candidates are used and already-seen items are  *)
(* written into the segment, not nothing; when a candidate is unseen, only  *)
(* unseen candidates are written.                                           *)
C25_FallbackToSeenCandidates ==
    [][(pc = "hn_update" /\ pc' = "hn_persist" /\ ~args.skip_check) =>
          /\ Len(items) = Min(Max(1, args.segment_end - args.segment_start + 1),
                              Len(HnChosen))
          /\ \A j \in 1..Len(items) :
                /\ items[j].url = HnChosen[j].url
                /\ seg_lines'[args.segment_start + j - 1] = format_item_line(items[j])
                /\ has_seen(fetched, items[j].url) <=> HnUnseen = <<>>]_vars

\* the second cycle finds the front page of the first: both stories are in the
\* store, and both are written into the segment again
C25_Witness ==
    /\ pc = "hn_persist"
    /\ ~args.skip_check
    /\ Len(calls) = 2
    /\ Len(HnCandidates) = 2 /\ HnUnseen = <<>>
    /\ Len(items) = 2
    /\ \A j \in 1..2 : has_seen(fetched, items[j].url)
    /\ seg_lines[2] = format_item_line(items[1])
    /\ seg_lines[3] = format_item_line(items[2])

----------------------------------------------------------------------------
\* the store the current call of one_round found
StoreAtEntry == calls[Len(calls)].store

(* C29: seen-records are persisted only after the output has been written:  *)
(* in the main pipeline and in the segment path, when writing the document  *)
(* or updating the segment raises, the run has inserted or modified no      *)
(* record of the store, so its items stay eligible for the next run.        *)
C29_NoRecordBeforeOutput ==
    /\ pc \in {"crashed", "hn_except"} => fetched = StoreAtEntry
    /\ pc \in {"write", "hn_update"} => fetched = StoreAtEntry

\* the segment update of a cycle raised: the handler is reached with the store
\* as the cycle found it, and the story it selected is still unseen
C29_Witness ==
    /\ pc = "hn_except"
    /\ resp.front.err = "" /\ ~resp.db_error
    /\ items # <<>>
    /\ fetched = StoreAtEntry
    /\ ~has_seen(fetched, items[1].url)
    /\ seg_lines = WeeklyLines
=============================================================================
